---- MODULE Spec2Model ----
(***************************************************************************)
(* ErtConfig (src/ert/config/ert_config.py): loading a configuration       *)
(* dictionary into a resolved configuration, and emitting the forward      *)
(* model descriptor.                                                       *)
(*                                                                         *)
(* Text is modelled as a sequence of tokens: a macro key such as "<MSG>"   *)
(* is one token.  A path is a sequence of components; an absolute path     *)
(* starts with the component "/".                                          *)
(***************************************************************************)
EXTENDS Integers, Sequences, FiniteSets, TLC

VARIABLES
    pc,                \* position of the loading call
    entry,             \* "from_file" or "from_dict"
    decls,             \* the invocation declarations of the user file, in file order
    user_config_file,  \* argument of from_file
    user_config,       \* the config_dict as the parser (or the caller) handed it over
    config,            \* the config_dict
    errors,            \* from_dict's local list `errors`
    raised,            \* the error list of the ConfigValidationError that was raised
    warned,            \* warnings emitted so far (warnings.warn)
    substitution_list, \* the global substitution table
    heap,              \* the objects allocated so far, a reference is an index
    workflow_jobs,     \* from_dict's locals, filled by the phases
    workflows,
    hooked_workflows,
    installed_jobs,
    model_config,
    locals,            \* the local collections of the loader that is running
    origins,           \* per entry of forward_model_list: the declaration it came from
    ert,               \* the ErtConfig returned, or None
    descriptor         \* the last descriptor emitted by forward_model_data_to_json

vars == <<pc, entry, decls, user_config_file, user_config, config, errors, raised, warned,
          substitution_list, heap, workflow_jobs, workflows, hooked_workflows,
          installed_jobs, model_config, locals, origins, ert, descriptor>>

None == "None"

\* None where a text is expected, and None where an object is expected
NoText == <<"(None)">>

NoObject == [none |-> TRUE]

----------------------------------------------------------------------------
(* Generic helpers *)

Range(s) == {s[i] : i \in 1..Len(s)}

RECURSIVE SeqsUpTo(_, _)
\* all sequences over S of length at most n
SeqsUpTo(S, n) ==
    IF n = 0 THEN {<<>>}
    ELSE LET shorter == SeqsUpTo(S, n - 1)
         IN  shorter \cup {Append(s, x) : s \in {t \in shorter : Len(t) = n - 1}, x \in S}

RECURSIVE Flatten(_)
Flatten(ss) == IF ss = <<>> THEN <<>> ELSE Head(ss) \o Flatten(Tail(ss))

\* dict.get(key, default) on a mapping modelled as a function
Get(d, k, default) == IF k \in DOMAIN d THEN d[k] ELSE default

\* d[k] = v on a mapping modelled as a function
Put(d, k, v) == [x \in DOMAIN d \cup {k} |-> IF x = k THEN v ELSE d[x]]

EmptyDict == [x \in {} |-> None]

----------------------------------------------------------------------------
(* os.path *)

Cwd == <<"/", "cwd">>

isabs(p) == Len(p) > 0 /\ p[1] = "/"

join(a, b) == IF isabs(b) THEN b ELSE a \o b

dirname(p) == IF Len(p) = 0 THEN <<>>
              ELSE IF p = <<"/">> THEN p
              ELSE SubSeq(p, 1, Len(p) - 1)

basename(p) == IF Len(p) = 0 \/ p = <<"/">> THEN "" ELSE p[Len(p)]

RECURSIVE normparts(_, _)
\* resolve "." and ".." components left to right; acc is the normalised prefix
normparts(acc, rest) ==
    IF rest = <<>> THEN acc
    ELSE LET c == Head(rest)
         IN  IF c = "." THEN normparts(acc, Tail(rest))
             ELSE IF c = ".."
                  THEN IF Len(acc) > 0 /\ acc[Len(acc)] \notin {"/", ".."}
                       THEN normparts(SubSeq(acc, 1, Len(acc) - 1), Tail(rest))
                       ELSE IF Len(acc) > 0 /\ acc[Len(acc)] = "/"
                            THEN normparts(acc, Tail(rest))
                            ELSE normparts(Append(acc, c), Tail(rest))
                  ELSE normparts(Append(acc, c), Tail(rest))

normpath(p) == normparts(<<>>, p)

abspath(p) == normpath(join(Cwd, p))

----------------------------------------------------------------------------
(* int(): a numeral is a sequence of characters *)

Digits == {"0", "1", "2", "3", "4", "5", "6", "7", "8", "9"}

DigitValue(c) ==
    CASE c = "0" -> 0 [] c = "1" -> 1 [] c = "2" -> 2 [] c = "3" -> 3 [] c = "4" -> 4
      [] c = "5" -> 5 [] c = "6" -> 6 [] c = "7" -> 7 [] c = "8" -> 8 [] c = "9" -> 9

RECURSIVE Strip(_)
\* int() ignores white space around the numeral
Strip(s) ==
    IF s = <<>> THEN s
    ELSE IF Head(s) = " " THEN Strip(Tail(s))
    ELSE IF s[Len(s)] = " " THEN Strip(SubSeq(s, 1, Len(s) - 1))
    ELSE s

Unsigned(s) ==
    IF Len(Strip(s)) > 0 /\ Strip(s)[1] \in {"-", "+"} THEN Tail(Strip(s)) ELSE Strip(s)

\* int(s) raises ValueError exactly when this is FALSE: the numeral is an
\* optional sign and digits, with single underscores allowed between digits
IsIntLiteral(s) ==
    LET u == Unsigned(s)
    IN  /\ Len(u) > 0
        /\ \A i \in 1..Len(u) : u[i] \in Digits \cup {"_"}
        /\ u[1] \in Digits /\ u[Len(u)] \in Digits
        /\ \A i \in 1..(Len(u) - 1) : ~(u[i] = "_" /\ u[i + 1] = "_")

RECURSIVE Magnitude(_)
Magnitude(s) == IF s = <<>> THEN 0
                ELSE IF s[Len(s)] = "_" THEN Magnitude(SubSeq(s, 1, Len(s) - 1))
                ELSE 10 * Magnitude(SubSeq(s, 1, Len(s) - 1)) + DigitValue(s[Len(s)])

IntValue(s) == IF Len(Strip(s)) > 0 /\ Strip(s)[1] = "-" THEN 0 - Magnitude(Unsigned(s))
               ELSE Magnitude(Unsigned(s))

\* int(*values): no argument gives 0, one argument is parsed
IntOfValues(values) ==
    IF values = <<>> THEN [ok |-> TRUE, val |-> 0]
    ELSE IF IsIntLiteral(values[1]) THEN [ok |-> TRUE, val |-> IntValue(values[1])]
    ELSE [ok |-> FALSE, val |-> 0]

----------------------------------------------------------------------------
(* Errors and warnings *)

\* ErrorInfo(message=..., filename=...) with the value the message quotes
ErrorInfo(message, about) == [message |-> message, about |-> about, listed |-> <<>>]

\* a ConfigValidationError carrying a list of ErrorInfo
ConfigValidationError(infos) == [cve |-> infos]

IsCVE(e) == "cve" \in DOMAIN e

\* ConfigValidationError.from_collected: one error holding every ErrorInfo,
\* those inside collected ConfigValidationErrors included
from_collected(errs) ==
    Flatten([i \in 1..Len(errs) |-> IF IsCVE(errs[i]) THEN errs[i].cve ELSE <<errs[i]>>])

Warning(message, about) == [message |-> message, about |-> about]

----------------------------------------------------------------------------
(* ErtConfig class constants *)

DEFAULT_ENSPATH == <<"storage">>

DEFAULT_RUNPATH_FILE == <<".ert_runpath_list">>

----------------------------------------------------------------------------
(* Validation of the config dictionary *)

\* ErtConfig._validate_dict
validate_dict(config_dict) ==
    IF "SUMMARY" \in DOMAIN config_dict /\ "ECLBASE" \notin DOMAIN config_dict
    THEN <<ErrorInfo("When using SUMMARY keyword, the config must also specify ECLBASE",
                     config_dict["SUMMARY"][1][1])>>
    ELSE <<>>

\* fault: the sign of the parsed value is not looked at
max_running_errors_unsigned(option) ==
    LET option_name == option[2]
        values      == SubSeq(option, 3, Len(option))
        parsed      == IntOfValues(values)
    IN  IF option_name # "MAX_RUNNING" THEN <<>>
        ELSE IF ~parsed.ok
             THEN <<ErrorInfo("QUEUE_OPTION MAX_RUNNING is not an integer", values)>>
        ELSE <<>>

\* the body of the loop of _validate_queue_option_max_running for one entry
\* (queue_system, option_name, *values)
max_running_errors(option) ==
    LET option_name == option[2]
        values      == SubSeq(option, 3, Len(option))
        parsed      == IntOfValues(values)
    IN  IF option_name # "MAX_RUNNING" THEN <<>>
        ELSE IF ~parsed.ok
             THEN <<ErrorInfo("QUEUE_OPTION MAX_RUNNING is not an integer", values)>>
        ELSE IF parsed.val < 0
             THEN <<ErrorInfo("QUEUE_OPTION MAX_RUNNING is negative", values)>>
        ELSE <<>>

\* ErtConfig._validate_queue_option_max_running
validate_queue_option_max_running(config_dict) ==
    LET options == Get(config_dict, "QUEUE_OPTION", <<>>)
    IN  Flatten([i \in 1..Len(options) |-> max_running_errors(options[i])])

\* str.lower() on the tokens the GEN_KW checks look for
Lower(token) ==
    CASE token = "INIT_FILES:" -> "init_files:"
      [] token = "FORWARD_INIT:TRUE" -> "forward_init:true"
      [] token = "FORWARD_INIT:FALSE" -> "forward_init:false"
      [] OTHER -> token

\* matching.lower() in arg.lower()
ContainsLower(arg, matching) == \E i \in 1..Len(arg) : Lower(arg[i]) = Lower(matching)

\* "%" in token
ContainsPercent(arg) == \E i \in 1..Len(arg) : arg[i] \in {"%d", "%"}

\* find_first_gen_kw_arg, for a kw_id declared once: the first matching
\* argument of its arglist, or None (NoText)
find_first_gen_kw_arg(config_dict, kw_id, matching) ==
    LET gen_kw   == config_dict["GEN_KW"]
        arglists == {i \in 1..Len(gen_kw) : gen_kw[i][1] = kw_id}
        arglist  == gen_kw[CHOOSE i \in arglists : \A j \in arglists : i <= j]
        hits     == {i \in 1..Len(arglist) : ContainsLower(arglist[i], matching)}
    IN  IF hits = {} THEN NoText
        ELSE arglist[CHOOSE i \in hits : \A j \in hits : i <= j]

\* len(all_arglists) > 1 in find_first_gen_kw_arg
DeclaredTwice(config_dict, kw_id) ==
    LET gen_kw == config_dict["GEN_KW"]
    IN  Cardinality({i \in 1..Len(gen_kw) : gen_kw[i][1] = kw_id}) > 1

\* the errors the loop body of _validate_ensemble_config appends for one kw_id
gen_kw_errors(config_dict, kw_id) ==
    LET use_fwd_init_token == find_first_gen_kw_arg(config_dict, kw_id, "FORWARD_INIT:TRUE")
        init_files_token   == find_first_gen_kw_arg(config_dict, kw_id, "INIT_FILES:")
    IN  (IF use_fwd_init_token # NoText
         THEN <<ConfigValidationError(<<ErrorInfo(
                  "Loading GEN_KW from files created by the forward model is not supported.",
                  kw_id)>>)>>
         ELSE <<>>)
        \o
        (IF init_files_token # NoText /\ ~ContainsPercent(init_files_token)
         THEN <<ConfigValidationError(<<ErrorInfo(
                  "Loading GEN_KW from files requires %d in file format", kw_id)>>)>>
         ELSE <<>>)

GenKwIds(config_dict) ==
    LET gen_kw == Get(config_dict, "GEN_KW", <<>>)
    IN  {gen_kw[i][1] : i \in 1..Len(gen_kw)}

\* the orders in which list({...}) may enumerate a set
Orderings(S) == {s \in SeqsUpTo(S, Cardinality(S)) : Range(s) = S}

\* ErtConfig._validate_ensemble_config, with gen_kw_id_list enumerated in the
\* order id_list: the errors returned, or the exception find_first_gen_kw_arg
\* raises at the first id that is declared twice
validate_ensemble_config(config_dict, id_list) ==
    LET dups == {i \in 1..Len(id_list) : DeclaredTwice(config_dict, id_list[i])}
    IN  IF dups # {}
        THEN [raises |-> <<ErrorInfo("Found two GEN_KW declarations",
                                     id_list[CHOOSE i \in dups : \A j \in dups : i <= j])>>,
              errors |-> <<>>]
        ELSE [raises |-> <<>>,
              errors |-> Flatten([i \in 1..Len(id_list) |->
                                     gen_kw_errors(config_dict, id_list[i])])]

\* ModelConfig.from_dict: raises ConfigValidationError on a run path format
\* with more than two %d
CountToken(text, token) == Cardinality({i \in 1..Len(text) : text[i] = token})

ModelConfig_from_dict(config_dict) ==
    LET runpath == Get(config_dict, "RUNPATH", <<"simulations", "realization-", "<IENS>">>)
    IN  IF CountToken(runpath, "%d") > 2
        THEN [raises |-> <<ErrorInfo("RUNPATH cannot contain more than two %d", runpath)>>,
              model_config |-> NoObject]
        ELSE [raises |-> <<>>,
              model_config |-> [runpath_format_string |-> runpath,
                                eclbase_format_string |->
                                    Get(config_dict, "ECLBASE", <<"ECLBASE", "<IENS>">>)]]

----------------------------------------------------------------------------
(* The file system the configuration refers to *)

\* a job definition file that parses; the arguments are texts, the
\* environment is a list of (key, value) in the order of the file
JobFile(executable, arglist, default_mapping, environment) ==
    [type |-> "file", parses |-> TRUE, executable |-> executable, arglist |-> arglist,
     default_mapping |-> default_mapping, environment |-> environment,
     exec_env |-> <<>>, stdout_file |-> <<"job.stdout">>, stderr_file |-> NoText]

\* a file ExtJob.from_config_file rejects
BadFile == [type |-> "file", parses |-> FALSE]

Dir(listing) == [type |-> "dir", listing |-> listing]

FileSystem ==
    (<<"/", "cwd", "jobs", "echo.job">> :>
        JobFile(<<"/", "bin", "echo">>, <<<<"<MSG>">>, <<"<TO>">>>>,
                (<<"<TO>">> :> <<"stdout">>), <<<<<<"LANG">>, <<"<LANG>">>>>>>))
    @@ (<<"/", "cwd", "jobs", "echo_v2.job">> :>
        JobFile(<<"/", "bin", "echo2">>, <<<<"<MSG>">>>>, EmptyDict, <<>>))
    @@ (<<"/", "cwd", "jobs", "bad.job">> :> BadFile)
    @@ (<<"/", "cwd", "jobs", "blank.job">> :>
        JobFile(<<"/", "bin", "true">>, <<>>, EmptyDict,
                <<<<<<"SET">>, <<"on">>>>, <<<<"BLANK">>, <<>>>>>>))
    @@ (<<"/", "cwd", "jobs", "env.job">> :>
        [JobFile(<<"/", "bin", "<MSG>">>, <<<<"<MSG>">>>>, EmptyDict,
                 <<<<<<"KEY_", "<MSG>">>, <<"value">>>>,
                   <<<<"KEEP">>, <<"plain">>>>,
                   <<<<"DROP">>, <<"<LANG>">>>>,
                   <<<<"MID">>, <<"pre", "<LANG>", "post">>>>,
                   <<<<"MSG">>, <<"<MSG>">>>>>>)
         EXCEPT !.exec_env = <<<<<<"HEAD">>, <<"<LANG>", "tail">>>>>>,
                !.stdout_file = NoText,
                !.stderr_file = <<"<MSG>", ".err">>])
    @@ (<<"/", "cwd", "jobdir">> :> Dir(<<"copy", "sub", "echo">>))
    @@ (<<"/", "cwd", "jobdir", "copy">> :>
        JobFile(<<"/", "bin", "cp">>, <<<<"<FROM>">>, <<"<TO>">>>>, EmptyDict, <<>>))
    @@ (<<"/", "cwd", "jobdir", "sub">> :> Dir(<<>>))
    @@ (<<"/", "cwd", "jobdir", "echo">> :>
        JobFile(<<"/", "bin", "echo3">>, <<<<"<MSG>">>>>, EmptyDict, <<>>))
    @@ (<<"/", "cwd", "emptydir">> :> Dir(<<>>))
    @@ (<<"/", "cwd", "subonly">> :> Dir(<<"sub">>))
    @@ (<<"/", "cwd", "subonly", "sub">> :> Dir(<<>>))
    @@ (<<"/", "cwd", "baddir">> :> Dir(<<"broken", "copy">>))
    @@ (<<"/", "cwd", "baddir", "broken">> :> BadFile)
    @@ (<<"/", "cwd", "baddir", "copy">> :>
        JobFile(<<"/", "bin", "cp2">>, <<<<"<FROM>">>, <<"<TO>">>>>, EmptyDict, <<>>))

\* os.path.isdir, os.path.isfile and os.listdir resolve a relative path
\* against the working directory
isdir(p) == abspath(p) \in DOMAIN FileSystem /\ FileSystem[abspath(p)].type = "dir"

isfile(p) == abspath(p) \in DOMAIN FileSystem /\ FileSystem[abspath(p)].type = "file"

listdir(p) == FileSystem[abspath(p)].listing

----------------------------------------------------------------------------
(* Objects: a reference is an index into the heap *)

Alloc(h, obj) == [heap |-> Append(h, obj), ref |-> Len(h) + 1]

\* ExtJob.from_config_file(config_file, name): a new ExtJob with its own
\* argument list and an empty private scope, or a ConfigValidationError
ExtJob_from_config_file(h, config_file, name) ==
    IF ~(config_file \in DOMAIN FileSystem
         /\ FileSystem[config_file].type = "file"
         /\ FileSystem[config_file].parses)
    THEN [raises |-> <<ErrorInfo("Could not load job definition", config_file)>>,
          heap |-> h, ref |-> 0]
    ELSE LET f  == FileSystem[config_file]
             a1 == Alloc(h, [kind |-> "list", items |-> f.arglist])
             a2 == Alloc(a1.heap, [kind |-> "SubstitutionList", items |-> EmptyDict])
             a3 == Alloc(a2.heap,
                         [kind |-> "ExtJob",
                          name |-> IF name = NoText THEN <<basename(config_file)>> ELSE name,
                          executable |-> f.executable,
                          stdout_file |-> f.stdout_file,
                          stderr_file |-> f.stderr_file,
                          arglist |-> a1.ref,
                          private_args |-> a2.ref,
                          default_mapping |-> f.default_mapping,
                          environment |-> f.environment,
                          exec_env |-> f.exec_env])
         IN  [raises |-> <<>>, heap |-> a3.heap, ref |-> a3.ref]

----------------------------------------------------------------------------
(* Job Registry Builder: ErtConfig._installed_jobs_from_dict *)

\* fault: a name that is already registered keeps its first definition
register_job_keeps_first(st, name, source, ref) ==
    IF name \in DOMAIN st.jobs
    THEN [st EXCEPT !.warnings =
              Append(@, Warning("Duplicate forward model job",
                                <<name, source, st.heap[st.jobs[name]].executable>>))]
    ELSE [st EXCEPT !.jobs = Put(@, name, ref)]

\* `if name in jobs: warnings.warn(...)`, then `jobs[name] = new_job`
register_job(st, name, source, ref) ==
    [st EXCEPT
        !.warnings = IF name \in DOMAIN st.jobs
                     THEN Append(@, Warning("Duplicate forward model job",
                                            <<name, source, st.heap[st.jobs[name]].executable>>))
                     ELSE @,
        !.jobs = Put(@, name, ref)]

\* the body of the loop over INSTALL_JOB for one entry (name, path)
install_job(st, job) ==
    LET name            == job[1]
        job_config_file == abspath(job[2])
        new_job         == ExtJob_from_config_file(st.heap, job_config_file, name)
    IN  IF new_job.raises # <<>>
        THEN [st EXCEPT !.errors = Append(@, ConfigValidationError(new_job.raises))]
        ELSE register_job([st EXCEPT !.heap = new_job.heap], name, job_config_file,
                          new_job.ref)

\* the body of the loop over the files of one job directory
install_job_file(st, job_path, file_name) ==
    LET full_path == abspath(join(job_path, <<file_name>>))
        new_job   == ExtJob_from_config_file(st.heap, full_path, NoText)
    IN  IF ~isfile(full_path) THEN st
        ELSE IF new_job.raises # <<>>
        THEN [st EXCEPT !.errors = Append(@, ConfigValidationError(new_job.raises))]
        ELSE register_job([st EXCEPT !.heap = new_job.heap],
                          new_job.heap[new_job.ref].name, full_path, new_job.ref)

RECURSIVE install_job_files(_, _, _)
install_job_files(st, job_path, files) ==
    IF files = <<>> THEN st
    ELSE install_job_files(install_job_file(st, job_path, Head(files)), job_path, Tail(files))

\* the body of the loop over INSTALL_JOB_DIRECTORY for one directory
install_job_directory(st, job_path) ==
    IF ~isdir(job_path)
    THEN [st EXCEPT !.errors = Append(@, ConfigValidationError(
                <<ErrorInfo("Unable to locate job directory", job_path)>>))]
    ELSE LET files == listdir(job_path)
         IN  IF \A i \in 1..Len(files) : ~isfile(abspath(join(job_path, <<files[i]>>)))
             THEN [st EXCEPT !.warnings =
                       Append(@, Warning("No files found in job directory", job_path))]
             ELSE install_job_files(st, job_path, files)

RECURSIVE install_jobs(_, _)
install_jobs(st, jobs) ==
    IF jobs = <<>> THEN st ELSE install_jobs(install_job(st, Head(jobs)), Tail(jobs))

RECURSIVE install_job_directories_fail_fast(_, _)
\* fault: the loop over the directories ends at the first error recorded
install_job_directories_fail_fast(st, dirs) ==
    IF dirs = <<>> \/ st.errors # <<>> THEN st
    ELSE install_job_directories_fail_fast(install_job_directory(st, Head(dirs)), Tail(dirs))

RECURSIVE install_job_directories(_, _)
install_job_directories(st, dirs) ==
    IF dirs = <<>> THEN st
    ELSE install_job_directories(install_job_directory(st, Head(dirs)), Tail(dirs))

----------------------------------------------------------------------------
(* Workflow & Hook Loader: ErtConfig._workflows_from_dict *)

\* a workflow job declaration file: WorkflowJob.from_file returns a job
\* ("ok"), raises ErtScriptLoadFailure ("script_failure") or raises
\* ConfigValidationError ("malformed")
WorkflowJobFile(outcome) == [type |-> "file", wfjob |-> outcome]

\* a workflow file and the workflow jobs it calls
WorkflowFile(calls) == [type |-> "file", workflow |-> calls]

WorkflowFileSystem ==
    (<<"/", "cwd", "wfjobs", "PRINT">> :> WorkflowJobFile("ok"))
    @@ (<<"/", "cwd", "wfjobs", "NOSCRIPT">> :> WorkflowJobFile("script_failure"))
    @@ (<<"/", "cwd", "wfjobs", "MALFORMED">> :> WorkflowJobFile("malformed"))
    @@ (<<"/", "cwd", "wfjobdir">> :> Dir(<<"EXPORT", "NOSCRIPT2">>))
    @@ (<<"/", "cwd", "wfjobdir", "EXPORT">> :> WorkflowJobFile("ok"))
    @@ (<<"/", "cwd", "wfjobdir", "NOSCRIPT2">> :> WorkflowJobFile("script_failure"))
    @@ (<<"/", "cwd", "wfbaddir">> :> Dir(<<"MALFORMED2">>))
    @@ (<<"/", "cwd", "wfbaddir", "MALFORMED2">> :> WorkflowJobFile("malformed"))
    @@ (<<"/", "cwd", "wf", "print_wf">> :> WorkflowFile(<<"PRINT">>))
    @@ (<<"/", "cwd", "wf", "export_wf">> :> WorkflowFile(<<"EXPORT">>))
    @@ (<<"/", "cwd", "wf2", "print_wf">> :> WorkflowFile(<<"PRINT", "PRINT">>))

\* HookRuntime
HookRuntime == {"PRE_SIMULATION", "POST_SIMULATION", "PRE_UPDATE", "POST_UPDATE",
                "PRE_FIRST_UPDATE"}

\* WorkflowJob.from_file(config_file, name)
WorkflowJob_from_file(config_file, name) ==
    LET path == abspath(config_file)
        f    == WorkflowFileSystem[path]
    IN  IF path \notin DOMAIN WorkflowFileSystem \/ "wfjob" \notin DOMAIN f
        THEN [outcome |-> "malformed"]
        ELSE IF f.wfjob # "ok" THEN [outcome |-> f.wfjob]
        ELSE [outcome |-> "ok",
              job |-> [name |-> IF name = None THEN basename(path) ELSE name,
                       src |-> path]]

\* Workflow.from_file(src_file, context, job_dict): raises
\* ConfigValidationError when the file calls a job that is not in job_dict
Workflow_from_file(src_file, job_dict) ==
    LET path == abspath(src_file)
        f    == WorkflowFileSystem[path]
    IN  IF path \notin DOMAIN WorkflowFileSystem \/ "workflow" \notin DOMAIN f
        THEN [raises |-> TRUE]
        ELSE IF \E i \in 1..Len(f.workflow) : f.workflow[i] \notin DOMAIN job_dict
        THEN [raises |-> TRUE]
        ELSE [raises |-> FALSE, workflow |-> [src_file |-> path, cmd_list |-> f.workflow]]

\* fault: a script that fails to load is recorded as an error
load_workflow_job_strict(st, config_file, name, context) ==
    LET new_job == WorkflowJob_from_file(config_file, name)
    IN  IF new_job.outcome = "ok"
        THEN [st EXCEPT !.workflow_jobs = Put(@, new_job.job.name, new_job.job)]
        ELSE [st EXCEPT !.errors =
                  Append(@, [message |-> "Malformed workflow job declaration",
                             about |-> config_file, listed |-> <<>>,
                             context |-> context])]

\* one LOAD_WORKFLOW_JOB entry, or one file of a WORKFLOW_JOB_DIRECTORY
load_workflow_job(st, config_file, name, context) ==
    LET new_job == WorkflowJob_from_file(config_file, name)
    IN  CASE new_job.outcome = "ok" ->
                [st EXCEPT !.workflow_jobs = Put(@, new_job.job.name, new_job.job)]
          [] new_job.outcome = "script_failure" ->
                [st EXCEPT !.warnings =
                     Append(@, Warning("Loading workflow job failed. It will not be loaded.",
                                       config_file))]
          [] new_job.outcome = "malformed" ->
                [st EXCEPT !.errors =
                     Append(@, [message |-> "Malformed workflow job declaration",
                                about |-> config_file, listed |-> <<>>,
                                context |-> context])]

RECURSIVE load_workflow_jobs(_, _)
load_workflow_jobs(st, info) ==
    IF info = <<>> THEN st
    ELSE LET workflow_job == Head(info)
         IN  load_workflow_jobs(
                 load_workflow_job(st, workflow_job[1],
                                   IF Len(workflow_job) = 1 THEN None ELSE workflow_job[2],
                                   workflow_job[1]),
                 Tail(info))

RECURSIVE load_workflow_job_files(_, _, _)
load_workflow_job_files(st, job_path, files) ==
    IF files = <<>> THEN st
    ELSE load_workflow_job_files(
             load_workflow_job(st, join(job_path, <<Head(files)>>), None, job_path),
             job_path, Tail(files))

RECURSIVE load_workflow_job_directories(_, _)
load_workflow_job_directories(st, dirs) ==
    IF dirs = <<>> THEN st
    ELSE LET job_path == Head(dirs)
             abs      == abspath(job_path)
             is_dir   == abs \in DOMAIN WorkflowFileSystem
                         /\ WorkflowFileSystem[abs].type = "dir"
         IN  load_workflow_job_directories(
                 IF ~is_dir
                 THEN [st EXCEPT !.warnings =
                           Append(@, Warning("Unable to open job directory", job_path))]
                 ELSE load_workflow_job_files(st, job_path, WorkflowFileSystem[abs].listing),
                 Tail(dirs))

\* the body of the loop over LOAD_WORKFLOW
load_workflow(st, work) ==
    LET filename == IF Len(work) = 1 THEN basename(work[1]) ELSE work[2]
        existed  == filename \in DOMAIN st.workflows
        loaded   == Workflow_from_file(work[1], st.workflow_jobs)
    IN  IF loaded.raises
        THEN [st EXCEPT !.warnings =
                  Append(@, Warning("Encountered error(s) while reading workflow. It will not be loaded",
                                    filename))]
        ELSE [st EXCEPT
                 !.workflows = Put(@, filename, loaded.workflow),
                 !.warnings  = IF existed
                               THEN Append(@, Warning("Workflow was added twice", filename))
                               ELSE @]

RECURSIVE load_workflows(_, _)
load_workflows(st, info) ==
    IF info = <<>> THEN st ELSE load_workflows(load_workflow(st, Head(info)), Tail(info))

\* fault: a new binding is put in front of the earlier bindings of its stage
hook_workflow_prepends(st, hook) ==
    LET hook_name == hook[1]
        mode_name == hook[2]
    IN  IF mode_name \notin HookRuntime
        THEN [st EXCEPT !.errors = Append(@, ConfigValidationError(
                  <<ErrorInfo("Run mode not supported for Hook Workflow", mode_name)>>))]
        ELSE IF hook_name \notin DOMAIN st.workflows
        THEN [st EXCEPT !.errors = Append(@,
                  ErrorInfo("Cannot setup hook for non-existing job name", hook_name))]
        ELSE [st EXCEPT !.hooked_workflows =
                  Put(@, mode_name, <<st.workflows[hook_name]>> \o Get(@, mode_name, <<>>))]

\* the body of the loop over HOOK_WORKFLOW
hook_workflow(st, hook) ==
    LET hook_name == hook[1]
        mode_name == hook[2]
    IN  IF mode_name \notin HookRuntime
        THEN [st EXCEPT !.errors = Append(@, ConfigValidationError(
                  <<ErrorInfo("Run mode not supported for Hook Workflow", mode_name)>>))]
        ELSE IF hook_name \notin DOMAIN st.workflows
        THEN [st EXCEPT !.errors = Append(@,
                  ErrorInfo("Cannot setup hook for non-existing job name", hook_name))]
        ELSE [st EXCEPT !.hooked_workflows =
                  Put(@, mode_name, Append(Get(@, mode_name, <<>>), st.workflows[hook_name]))]

RECURSIVE hook_workflows(_, _)
hook_workflows(st, info) ==
    IF info = <<>> THEN st ELSE hook_workflows(hook_workflow(st, Head(info)), Tail(info))

----------------------------------------------------------------------------
(* Substitution Engine: SubstitutionList, a mapping from macro key (one     *)
(* token) to replacement text                                              *)

\* the passes substitute makes when the caller gives no max_iterations
DefaultMaxIterations == 4

\* one pass: every occurrence of every key is replaced by its value
substitute_once(table, text) ==
    Flatten([i \in 1..Len(text) |->
                IF text[i] \in DOMAIN table THEN table[text[i]] ELSE <<text[i]>>])

RECURSIVE substitute(_, _, _)
\* SubstitutionList.substitute(text, context, max_iterations): passes are
\* repeated until nothing changes or max_iterations passes were made
substitute(table, text, max_iterations) ==
    IF max_iterations = 0 THEN text
    ELSE LET next == substitute_once(table, text)
         IN  IF next = text THEN text ELSE substitute(table, next, max_iterations - 1)

\* SubstitutionList.substitute_real_iter: <IENS> and <ITER> are defined in a
\* copy of the table for this call only
substitute_real_iter(table, text, iens, itr) ==
    substitute(Put(Put(table, "<IENS>", <<ToString(iens)>>), "<ITER>", <<ToString(itr)>>),
               text, DefaultMaxIterations)

\* SubstitutionList.from_dict: the DEFINE entries of the config
SubstitutionList_from_dict(config_dict) ==
    LET defines == Get(config_dict, "DEFINE", <<>>)
        RECURSIVE fill(_, _)
        fill(table, rest) == IF rest = <<>> THEN table
                             ELSE fill(Put(table, Head(rest)[1], Head(rest)[2]), Tail(rest))
    IN  fill(EmptyDict, defines)

\* SubstitutionList.add_from_string: a string of key=value items; an item
\* that is not of that form raises ValueError
WellFormedItem(item) == Len(item) = 3 /\ item[2] = "="

add_from_string(items) ==
    LET RECURSIVE fill(_, _)
        fill(table, rest) == IF rest = <<>> THEN table
                             ELSE fill(Put(table, Head(rest)[1], <<Head(rest)[3]>>), Tail(rest))
    IN  IF \E i \in 1..Len(items) : ~WellFormedItem(items[i])
        THEN [raises |-> TRUE, table |-> EmptyDict]
        ELSE [raises |-> FALSE, table |-> fill(EmptyDict, items)]

\* `for key, val in args: job.private_args[key] = val`
add_from_pairs(pairs) ==
    LET RECURSIVE fill(_, _)
        fill(table, rest) == IF rest = <<>> THEN table
                             ELSE fill(Put(table, Head(rest)[1], Head(rest)[2]), Tail(rest))
    IN  fill(EmptyDict, pairs)

----------------------------------------------------------------------------
(* Forward Model Resolver: ErtConfig.read_forward_model *)

\* fault: the registry's job object is used as it is, not copied
deepcopy_shared(h, ref) == [heap |-> h, ref |-> ref]

\* copy.deepcopy of an ExtJob: a new job object with new copies of the
\* objects it refers to
deepcopy(h, ref) ==
    LET job == h[ref]
        a1  == Alloc(h, h[job.arglist])
        a2  == Alloc(a1.heap, a1.heap[job.private_args])
        a3  == Alloc(a2.heap, [job EXCEPT !.arglist = a1.ref, !.private_args = a2.ref])
    IN  [heap |-> a3.heap, ref |-> a3.ref]

\* the body of the loop over FORWARD_MODEL for the i-th entry
resolve_forward_model(st, registry, context, i, job) ==
    LET unsubstituted_job_name == job[1]
        args     == IF Len(job) > 1 THEN job[2] ELSE [kind |-> "list", items |-> <<>>]
        job_name == substitute(context, unsubstituted_job_name, DefaultMaxIterations)
        copied   == deepcopy(st.heap, registry[job_name])
        private  == Alloc(copied.heap, [kind |-> "SubstitutionList", items |-> EmptyDict])
        \* job.private_args = SubstitutionList()
        rebound  == [private.heap EXCEPT ![copied.ref].private_args = private.ref]
        parsed   == IF args.kind = "str" THEN add_from_string(args.items)
                    ELSE [raises |-> FALSE, table |-> add_from_pairs(args.items)]
        filled   == [rebound EXCEPT ![private.ref].items = parsed.table]
    IN  IF job_name \notin DOMAIN registry
        THEN [st EXCEPT !.errors = Append(@, ConfigValidationError(
                  <<[message |-> "Could not find job in list of installed jobs:",
                     about |-> job_name, listed |-> <<DOMAIN registry>>]>>))]
        ELSE IF args.items = <<>>
        THEN [st EXCEPT !.heap = copied.heap,
                        !.jobs = Append(@, copied.ref),
                        !.origins = Append(@, <<"FORWARD_MODEL", i>>)]
        ELSE IF parsed.raises
        THEN [st EXCEPT !.heap = rebound,
                        !.errors = Append(@, ConfigValidationError(
                            <<ErrorInfo("Malformed FORWARD_MODEL arguments", job_name)>>))]
        ELSE [st EXCEPT !.heap = filled,
                        !.jobs = Append(@, copied.ref),
                        !.origins = Append(@, <<"FORWARD_MODEL", i>>)]

\* the body of the loop over SIMULATION_JOB for the i-th entry
resolve_simulation_job(st, registry, i, job_description) ==
    LET job_name == job_description[1]
        copied   == deepcopy(st.heap, registry[job_name])
        arglist  == Alloc(copied.heap, [kind |-> "list", items |-> Tail(job_description)])
        \* job.arglist = job_description[1:]
        rebound  == [arglist.heap EXCEPT ![copied.ref].arglist = arglist.ref]
    IN  IF job_name \notin DOMAIN registry
        THEN [st EXCEPT !.errors = Append(@, ConfigValidationError(
                  <<[message |-> "Could not find job in list of installed jobs.",
                     about |-> job_name, listed |-> <<>>]>>))]
        ELSE [st EXCEPT !.heap = rebound,
                        !.jobs = Append(@, copied.ref),
                        !.origins = Append(@, <<"SIMULATION_JOB", i>>)]

RECURSIVE resolve_forward_models_reversed(_, _, _, _, _)
\* fault: the FORWARD_MODEL entries are resolved last entry first
resolve_forward_models_reversed(st, registry, context, i, entries) ==
    IF i > Len(entries) THEN st
    ELSE resolve_forward_model(
             resolve_forward_models_reversed(st, registry, context, i + 1, entries),
             registry, context, i, entries[i])

RECURSIVE resolve_forward_models(_, _, _, _, _)
resolve_forward_models(st, registry, context, i, entries) ==
    IF i > Len(entries) THEN st
    ELSE resolve_forward_models(resolve_forward_model(st, registry, context, i, entries[i]),
                                registry, context, i + 1, entries)

RECURSIVE resolve_simulation_jobs(_, _, _, _)
resolve_simulation_jobs(st, registry, i, entries) ==
    IF i > Len(entries) THEN st
    ELSE resolve_simulation_jobs(resolve_simulation_job(st, registry, i, entries[i]),
                                 registry, i + 1, entries)

----------------------------------------------------------------------------
(* Execution Descriptor Emitter: ErtConfig.forward_model_data_to_json *)

\* the tokens whose first character is "<" and whose last character is ">"
MacroTokens == {"<MSG>", "<TO>", "<FROM>", "<LANG>", "<IENS>", "<ITER>", "<JOB>",
                "<NAME>", "<RUNPATH>", "<ECLBASE>", "<ECL_BASE>", "<RUNPATH_FILE>",
                "<CONFIG_PATH>", "<CONFIG_FILE>"}

\* Substituter.__init__: the private arguments, each substituted against the
\* global table for this realization and iteration
copy_private_args(context, private_args, iens, itr) ==
    [key \in DOMAIN private_args |->
        substitute_real_iter(context, private_args[key], iens, itr)]

\* fault: the private scope of the invocation is not consulted
Substituter_substitute_global_only(context, private, string, iens, itr) ==
    IF string = NoText THEN string
    ELSE substitute_real_iter(context, string, iens, itr)

\* fault: the substituted private arguments are written back to the job
Substituter_init_in_place(h, context, ref, iens, itr) ==
    LET copied == copy_private_args(context, h[h[ref].private_args].items, iens, itr)
    IN  [heap |-> [h EXCEPT ![h[ref].private_args].items = copied],
         copy_private_args |-> copied]

\* Substituter(job): copy_private_args is a new SubstitutionList; the job and
\* its private scope are read, not written
Substituter_init(h, context, ref, iens, itr) ==
    [heap |-> h,
     copy_private_args |->
         copy_private_args(context, h[h[ref].private_args].items, iens, itr)]

RECURSIVE construct_substituters(_, _, _, _, _)
\* `[(idx, job, Substituter(job)) for idx, job in enumerate(...)]`: the
\* objects after a Substituter was constructed for each job of the list
construct_substituters(h, context, list, iens, itr) ==
    IF list = <<>> THEN h
    ELSE construct_substituters(Substituter_init(h, context, Head(list), iens, itr).heap,
                                context, Tail(list), iens, itr)

\* fault: the global table is consulted before the private scope
Substituter_substitute_global_first(context, private, string, iens, itr) ==
    IF string = NoText THEN string
    ELSE substitute(private, substitute_real_iter(context, string, iens, itr), 1)

\* Substituter.substitute: one pass of the private scope, then the global table
Substituter_substitute(context, private, string, iens, itr) ==
    IF string = NoText THEN string
    ELSE substitute_real_iter(context, substitute(private, string, 1), iens, itr)

\* handle_default
handle_default(default_mapping, arg) == Get(default_mapping, arg, arg)

\* fault: a mapping without entries is returned as it is
filter_env_dict_keeps_empty(context, private, d, iens, itr) ==
    LET Sub(string) == Substituter_substitute(context, private, string, iens, itr)
        RECURSIVE fill(_, _)
        fill(result, rest) ==
            IF rest = <<>> THEN result
            ELSE LET new_key   == Sub(Head(rest)[1])
                     new_value == Sub(Head(rest)[2])
                 IN  IF new_value = NoText \/ Len(new_value) = 0
                        \/ ~(new_value[1] \in MacroTokens
                             /\ new_value[Len(new_value)] \in MacroTokens)
                     THEN fill(Put(result, new_key, new_value), Tail(rest))
                     ELSE fill(result, Tail(rest))
        fails  == \E i \in 1..Len(d) : Sub(d[i][2]) = <<>>
    IN  [raises |-> fails,
         env    |-> IF fails THEN NoObject ELSE fill(EmptyDict, d)]

\* Substituter.filter_env_dict; new_value[0] of an empty value raises IndexError
filter_env_dict(context, private, d, iens, itr) ==
    LET Sub(string) == Substituter_substitute(context, private, string, iens, itr)
        RECURSIVE fill(_, _)
        fill(result, rest) ==
            IF rest = <<>> THEN result
            ELSE LET new_key   == Sub(Head(rest)[1])
                     new_value == Sub(Head(rest)[2])
                 IN  IF new_value = NoText \/ Len(new_value) = 0
                        \/ ~(new_value[1] \in MacroTokens
                             /\ new_value[Len(new_value)] \in MacroTokens)
                     THEN fill(Put(result, new_key, new_value), Tail(rest))
                     ELSE fill(result, Tail(rest))
        fails  == \E i \in 1..Len(d) : Sub(d[i][2]) = <<>>
        result == fill(EmptyDict, d)
    IN  [raises |-> fails,
         env    |-> IF fails \/ DOMAIN result = {} THEN NoObject ELSE result]

\* fault: the log file names are the substituted templates, without the index
job_entry_without_index(h, context, ref, idx, iens, itr) ==
    LET job     == h[ref]
        private == Substituter_init(h, context, ref, iens, itr).copy_private_args
        Sub(string) == Substituter_substitute(context, private, string, iens, itr)
        arglist == h[job.arglist].items
    IN  [name        |-> Sub(job.name),
         executable  |-> Sub(job.executable),
         stdout      |-> IF job.stdout_file # NoText /\ job.stdout_file # <<>>
                         THEN Sub(job.stdout_file) ELSE NoText,
         stderr      |-> IF job.stderr_file # NoText /\ job.stderr_file # <<>>
                         THEN Sub(job.stderr_file) ELSE NoText,
         argList     |-> [i \in 1..Len(arglist) |->
                             handle_default(job.default_mapping, Sub(arglist[i]))],
         environment |-> filter_env_dict(context, private, job.environment, iens, itr),
         exec_env    |-> filter_env_dict(context, private, job.exec_env, iens, itr)]

\* one entry of jobList, for the job at 0-based position idx
job_entry(h, context, ref, idx, iens, itr) ==
    LET job     == h[ref]
        private == Substituter_init(h, context, ref, iens, itr).copy_private_args
        Sub(string) == Substituter_substitute(context, private, string, iens, itr)
        arglist == h[job.arglist].items
    IN  [name        |-> Sub(job.name),
         executable  |-> Sub(job.executable),
         stdout      |-> IF job.stdout_file # NoText /\ job.stdout_file # <<>>
                         THEN Sub(job.stdout_file) \o <<".", ToString(idx)>> ELSE NoText,
         stderr      |-> IF job.stderr_file # NoText /\ job.stderr_file # <<>>
                         THEN Sub(job.stderr_file) \o <<".", ToString(idx)>> ELSE NoText,
         argList     |-> [i \in 1..Len(arglist) |->
                             handle_default(job.default_mapping, Sub(arglist[i]))],
         environment |-> filter_env_dict(context, private, job.environment, iens, itr),
         exec_env    |-> filter_env_dict(context, private, job.exec_env, iens, itr)]

\* ErtConfig.forward_model_data_to_json(run_id, iens, itr)
\* the fields iens and itr of the result record the arguments of the call;
\* the dictionary the code returns does not hold them
forward_model_data_to_json(h, self, iens, itr) ==
    LET list    == self.forward_model_list
        entries == [i \in 1..Len(list) |->
                       job_entry(h, self.substitution_list, list[i], i - 1, iens, itr)]
    IN  IF \E i \in 1..Len(list) : entries[i].environment.raises \/ entries[i].exec_env.raises
        THEN [raises |-> "IndexError"]
        ELSE [raises |-> None,
              global_environment |-> self.env_vars,
              jobList |-> [i \in 1..Len(list) |->
                              [entries[i] EXCEPT !.environment = @.env, !.exec_env = @.env]],
              iens |-> iens, itr |-> itr]

----------------------------------------------------------------------------
(* Raw Config Loader: defaults applied by from_file *)

\* fault: no ENSPATH is filled in, only RUNPATH_FILE is
apply_config_content_defaults_without_enspath(content_dict, config_dir) ==
    IF "RUNPATH_FILE" \notin DOMAIN content_dict
    THEN Put(content_dict, "RUNPATH_FILE", join(config_dir, DEFAULT_RUNPATH_FILE))
    ELSE IF ~isabs(content_dict["RUNPATH_FILE"])
    THEN Put(content_dict, "RUNPATH_FILE",
             normpath(join(config_dir, content_dict["RUNPATH_FILE"])))
    ELSE content_dict

\* ErtConfig.apply_config_content_defaults
apply_config_content_defaults(content_dict, config_dir) ==
    LET with_enspath ==
            IF "ENSPATH" \notin DOMAIN content_dict
            THEN Put(content_dict, "ENSPATH", join(config_dir, DEFAULT_ENSPATH))
            ELSE content_dict
    IN  IF "RUNPATH_FILE" \notin DOMAIN with_enspath
        THEN Put(with_enspath, "RUNPATH_FILE", join(config_dir, DEFAULT_RUNPATH_FILE))
        ELSE IF ~isabs(with_enspath["RUNPATH_FILE"])
        THEN Put(with_enspath, "RUNPATH_FILE",
                 normpath(join(config_dir, with_enspath["RUNPATH_FILE"])))
        ELSE with_enspath

\* files that are not valid UTF-8
NonUtf8Files == {<<"/", "cwd", "latin1.DATA">>}

\* str.replace("%d", "<IENS>")
replace_percent_d(text) == [i \in 1..Len(text) |-> IF text[i] = "%d" THEN "<IENS>" ELSE text[i]]

\* ErtConfig._read_templates, with check_non_utf_chars
read_templates(config_dict) ==
    LET has_data == "DATA_FILE" \in DOMAIN config_dict /\ "ECLBASE" \in DOMAIN config_dict
        data     == IF has_data
                    THEN <<<<config_dict["DATA_FILE"],
                             Append(replace_percent_d(config_dict["ECLBASE"]), ".DATA")>>>>
                    ELSE <<>>
    IN  IF has_data /\ abspath(config_dict["DATA_FILE"]) \in NonUtf8Files
        THEN [raises |-> <<ErrorInfo("Unsupported non UTF-8 character found in file",
                                     config_dict["DATA_FILE"])>>,
              templates |-> <<>>]
        ELSE [raises |-> <<>>,
              templates |-> data \o Get(config_dict, "RUN_TEMPLATE", <<>>)]

\* fault: the second dictionary check is skipped once the first found an error
dict_errors_first_failure(config_dict) ==
    IF validate_dict(config_dict) # <<>> THEN validate_dict(config_dict)
    ELSE validate_queue_option_max_running(config_dict)

\* lines 105-106 of from_dict: the errors of the two dictionary checks
dict_errors(config_dict) ==
    validate_dict(config_dict) \o validate_queue_option_max_running(config_dict)

\* lines 145-147 of from_dict
env_vars_from_dict(config_dict) ==
    LET RECURSIVE fill(_, _)
        fill(env, rest) == IF rest = <<>> THEN env
                           ELSE fill(Put(env, Head(rest)[1], Head(rest)[2]), Tail(rest))
    IN  fill(EmptyDict, Get(config_dict, "SETENV", <<>>))

----------------------------------------------------------------------------
(* The loading call, step by step: pc is the position in from_file,        *)
(* from_dict and the loaders from_dict calls                               *)

Raise(infos) ==
    /\ pc' = "raised"
    /\ raised' = infos

call_args == <<entry, decls, user_config_file, user_config>>

\* ErtConfig.from_file, up to the call of from_dict
FromFile ==
    /\ pc = "from_file"
    /\ config' = apply_config_content_defaults(config, abspath(dirname(user_config_file)))
    /\ pc' = "from_dict"
    /\ UNCHANGED <<call_args, errors, raised, warned, substitution_list, heap,
                   workflow_jobs, workflows, hooked_workflows, installed_jobs,
                   model_config, locals, origins, ert, descriptor>>

\* from_dict, lines 96-109
ValidateDict ==
    /\ pc = "from_dict"
    /\ substitution_list' =
           Put(SubstitutionList_from_dict(config), "<RUNPATH_FILE>",
               Get(config, "RUNPATH_FILE", DEFAULT_RUNPATH_FILE))
    /\ errors' = dict_errors(config)
    /\ IF errors' # <<>>
       THEN Raise(from_collected(errors'))
       ELSE pc' = "ensemble" /\ UNCHANGED raised
    /\ UNCHANGED <<call_args, config, warned, heap, workflow_jobs, workflows,
                   hooked_workflows, installed_jobs, model_config, locals, origins,
                   ert, descriptor>>

\* from_dict, lines 111-112
ValidateEnsemble ==
    /\ pc = "ensemble"
    /\ \E id_list \in Orderings(GenKwIds(config)) :
          LET r == validate_ensemble_config(config, id_list)
          IN  IF r.raises # <<>>
              THEN Raise(r.raises) /\ UNCHANGED errors
              ELSE /\ errors' = errors \o r.errors
                   /\ pc' = "model"
                   /\ UNCHANGED raised
    /\ UNCHANGED <<call_args, config, warned, substitution_list, heap, workflow_jobs,
                   workflows, hooked_workflows, installed_jobs, model_config, locals,
                   origins, ert, descriptor>>

\* from_dict, lines 114-128
BuildModelConfig ==
    /\ pc = "model"
    /\ LET r == ModelConfig_from_dict(config)
       IN  IF r.raises # <<>>
           THEN /\ errors' = Append(errors, ConfigValidationError(r.raises))
                /\ UNCHANGED <<model_config, substitution_list>>
           ELSE /\ model_config' = r.model_config
                /\ substitution_list' =
                       Put(Put(Put(substitution_list,
                                   "<RUNPATH>", r.model_config.runpath_format_string),
                               "<ECL_BASE>", r.model_config.eclbase_format_string),
                           "<ECLBASE>", r.model_config.eclbase_format_string)
                /\ UNCHANGED errors
    /\ pc' = "workflow_jobs"
    /\ UNCHANGED <<call_args, config, raised, warned, heap, workflow_jobs, workflows,
                   hooked_workflows, installed_jobs, locals, origins, ert, descriptor>>

\* _workflows_from_dict, lines 574-607: the loop over LOAD_WORKFLOW_JOB
LoadWorkflowJobs ==
    /\ pc = "workflow_jobs"
    /\ LET st == load_workflow_jobs(
                     [workflow_jobs |-> EmptyDict, workflows |-> EmptyDict,
                      hooked_workflows |-> EmptyDict, errors |-> <<>>, warnings |-> warned],
                     Get(config, "LOAD_WORKFLOW_JOB", <<>>))
       IN  /\ locals' = [st EXCEPT !.warnings = <<>>]
           /\ warned' = st.warnings
    /\ pc' = "workflow_job_dirs"
    /\ UNCHANGED <<call_args, config, errors, raised, substitution_list, heap,
                   workflow_jobs, workflows, hooked_workflows, installed_jobs,
                   model_config, origins, ert, descriptor>>

\* _workflows_from_dict, lines 609-636: the loop over WORKFLOW_JOB_DIRECTORY and
\* the raise of the errors collected so far, which from_dict appends (134-135)
LoadWorkflowJobDirectories ==
    /\ pc = "workflow_job_dirs"
    /\ LET st == load_workflow_job_directories(
                     [locals EXCEPT !.warnings = warned],
                     Get(config, "WORKFLOW_JOB_DIRECTORY", <<>>))
       IN  /\ warned' = st.warnings
           /\ IF st.errors # <<>>
              THEN /\ errors' = Append(errors,
                                       ConfigValidationError(from_collected(st.errors)))
                   /\ locals' = NoObject
                   /\ pc' = "jobs"
              ELSE /\ locals' = [st EXCEPT !.warnings = <<>>]
                   /\ pc' = "load_workflows"
                   /\ UNCHANGED errors
    /\ UNCHANGED <<call_args, config, raised, substitution_list, heap, workflow_jobs,
                   workflows, hooked_workflows, installed_jobs, model_config, origins,
                   ert, descriptor>>

\* _workflows_from_dict, lines 638-658: the loop over LOAD_WORKFLOW
LoadWorkflowFiles ==
    /\ pc = "load_workflows"
    /\ LET st == load_workflows([locals EXCEPT !.warnings = warned],
                                Get(config, "LOAD_WORKFLOW", <<>>))
       IN  /\ locals' = [st EXCEPT !.warnings = <<>>]
           /\ warned' = st.warnings
    /\ pc' = "hook_workflows"
    /\ UNCHANGED <<call_args, config, errors, raised, substitution_list, heap,
                   workflow_jobs, workflows, hooked_workflows, installed_jobs,
                   model_config, origins, ert, descriptor>>

\* _workflows_from_dict, lines 660-688: the loop over HOOK_WORKFLOW, then the
\* raise of its errors, which from_dict appends (134-135), or the return
\* (131-133)
HookWorkflows ==
    /\ pc = "hook_workflows"
    /\ LET st == hook_workflows([locals EXCEPT !.errors = <<>>],
                                Get(config, "HOOK_WORKFLOW", <<>>))
       IN  IF st.errors # <<>>
           THEN /\ errors' = Append(errors,
                                    ConfigValidationError(from_collected(st.errors)))
                /\ UNCHANGED <<workflow_jobs, workflows, hooked_workflows>>
           ELSE /\ workflow_jobs' = st.workflow_jobs
                /\ workflows' = st.workflows
                /\ hooked_workflows' = st.hooked_workflows
                /\ UNCHANGED errors
    /\ locals' = NoObject
    /\ pc' = "jobs"
    /\ UNCHANGED <<call_args, config, raised, warned, substitution_list, heap,
                   installed_jobs, model_config, origins, ert, descriptor>>

\* _installed_jobs_from_dict, lines 692-711: the loop over INSTALL_JOB
InstallJobs ==
    /\ pc = "jobs"
    /\ LET st == install_jobs([jobs |-> EmptyDict, errors |-> <<>>, warnings |-> warned,
                               heap |-> heap],
                              Get(config, "INSTALL_JOB", <<>>))
       IN  /\ locals' = [jobs |-> st.jobs, errors |-> st.errors]
           /\ warned' = st.warnings
           /\ heap' = st.heap
    /\ pc' = "job_dirs"
    /\ UNCHANGED <<call_args, config, errors, raised, substitution_list, workflow_jobs,
                   workflows, hooked_workflows, installed_jobs, model_config, origins,
                   ert, descriptor>>

\* _installed_jobs_from_dict, lines 713-755: the loop over INSTALL_JOB_DIRECTORY,
\* then the raise of the collected errors, which from_dict appends (139-140),
\* or the return (138)
InstallJobDirectories ==
    /\ pc = "job_dirs"
    /\ LET st == install_job_directories(
                     [jobs |-> locals.jobs, errors |-> locals.errors, warnings |-> warned,
                      heap |-> heap],
                     Get(config, "INSTALL_JOB_DIRECTORY", <<>>))
       IN  /\ warned' = st.warnings
           /\ heap' = st.heap
           /\ IF st.errors # <<>>
              THEN /\ errors' = Append(errors,
                                       ConfigValidationError(from_collected(st.errors)))
                   /\ UNCHANGED installed_jobs
              ELSE /\ installed_jobs' = st.jobs
                   /\ UNCHANGED errors
    /\ locals' = NoObject
    /\ pc' = "check"
    /\ UNCHANGED <<call_args, config, raised, substitution_list, workflow_jobs, workflows,
                   hooked_workflows, model_config, origins, ert, descriptor>>

\* fault: from_dict goes on to construct although errors were collected
CheckErrors_unchecked ==
    /\ pc = "check"
    /\ pc' = "templates"
    /\ UNCHANGED <<call_args, config, errors, raised, warned, substitution_list, heap,
                   workflow_jobs, workflows, hooked_workflows, installed_jobs,
                   model_config, locals, origins, ert, descriptor>>

\* from_dict, lines 142-143
CheckErrors ==
    /\ pc = "check"
    /\ IF errors # <<>>
       THEN Raise(from_collected(errors))
       ELSE pc' = "templates" /\ UNCHANGED raised
    /\ UNCHANGED <<call_args, config, errors, warned, substitution_list, heap,
                   workflow_jobs, workflows, hooked_workflows, installed_jobs,
                   model_config, locals, origins, ert, descriptor>>

\* from_dict, lines 145-165: the arguments of cls(...) are evaluated in order,
\* _read_templates before read_forward_model
ReadTemplates ==
    /\ pc = "templates"
    /\ LET r == read_templates(config)
       IN  IF r.raises # <<>>
           THEN Raise(r.raises) /\ UNCHANGED locals
           ELSE /\ locals' = [templates |-> r.templates]
                /\ pc' = "forward_model"
                /\ UNCHANGED raised
    /\ UNCHANGED <<call_args, config, errors, warned, substitution_list, heap,
                   workflow_jobs, workflows, hooked_workflows, installed_jobs,
                   model_config, origins, ert, descriptor>>

\* read_forward_model, lines 384-426: the loop over FORWARD_MODEL
ResolveForwardModels ==
    /\ pc = "forward_model"
    /\ LET st == resolve_forward_models(
                     [jobs |-> <<>>, errors |-> <<>>, heap |-> heap, origins |-> <<>>],
                     installed_jobs, substitution_list, 1,
                     Get(config, "FORWARD_MODEL", <<>>))
       IN  /\ locals' = [templates |-> locals.templates, jobs |-> st.jobs,
                         errors |-> st.errors, origins |-> st.origins]
           /\ heap' = st.heap
    /\ pc' = "simulation_jobs"
    /\ UNCHANGED <<call_args, config, errors, raised, warned, substitution_list,
                   workflow_jobs, workflows, hooked_workflows, installed_jobs,
                   model_config, origins, ert, descriptor>>

\* the ErtConfig that from_dict constructs, lines 153-173
new_ErtConfig(templates, forward_model_list) ==
    [substitution_list  |-> substitution_list,
     ens_path           |-> Get(config, "ENSPATH", DEFAULT_ENSPATH),
     env_vars           |-> env_vars_from_dict(config),
     workflow_jobs      |-> workflow_jobs,
     workflows          |-> workflows,
     hooked_workflows   |-> hooked_workflows,
     runpath_file       |-> Get(config, "RUNPATH_FILE", DEFAULT_RUNPATH_FILE),
     ert_templates      |-> templates,
     installed_jobs     |-> installed_jobs,
     forward_model_list |-> forward_model_list,
     model_config       |-> model_config,
     user_config_file   |-> join(Get(substitution_list, "<CONFIG_PATH>", <<>>),
                                 Get(substitution_list, "<CONFIG_FILE>", <<"no_config">>)),
     warning_infos      |-> Get(config, "warning_infos", <<>>)]

\* read_forward_model, lines 427-445: the loop over SIMULATION_JOB, then the
\* raise of the collected errors or the return of the job list, with which
\* from_dict returns the configuration (167-173)
ResolveSimulationJobs ==
    /\ pc = "simulation_jobs"
    /\ LET st == resolve_simulation_jobs(
                     [jobs |-> locals.jobs, errors |-> locals.errors, heap |-> heap,
                      origins |-> locals.origins],
                     installed_jobs, 1, Get(config, "SIMULATION_JOB", <<>>))
       IN  /\ heap' = st.heap
           /\ IF st.errors # <<>>
              THEN Raise(from_collected(st.errors)) /\ UNCHANGED <<origins, ert>>
              ELSE /\ origins' = st.origins
                   /\ ert' = new_ErtConfig(locals.templates, st.jobs)
                   /\ pc' = "returned"
                   /\ UNCHANGED raised
    /\ locals' = NoObject
    /\ UNCHANGED <<call_args, config, errors, warned, substitution_list, workflow_jobs,
                   workflows, hooked_workflows, installed_jobs, model_config, descriptor>>

\* realization and iteration indices the descriptor is asked for
MaxIens == 1

MaxIter == 1

\* ErtConfig.forward_model_data_to_json on the returned configuration
EmitDescriptor ==
    /\ pc = "returned"
    /\ \E iens \in 0..MaxIens, itr \in 0..MaxIter :
          /\ descriptor' = forward_model_data_to_json(heap, ert, iens, itr)
          /\ heap' = construct_substituters(heap, ert.substitution_list,
                                            ert.forward_model_list, iens, itr)
    /\ UNCHANGED <<pc, call_args, config, errors, raised, warned, substitution_list,
                   workflow_jobs, workflows, hooked_workflows, installed_jobs,
                   model_config, locals, origins, ert>>

Next ==
    \/ FromFile
    \/ ValidateDict
    \/ ValidateEnsemble
    \/ BuildModelConfig
    \/ LoadWorkflowJobs
    \/ LoadWorkflowJobDirectories
    \/ LoadWorkflowFiles
    \/ HookWorkflows
    \/ InstallJobs
    \/ InstallJobDirectories
    \/ CheckErrors
    \/ ReadTemplates
    \/ ResolveForwardModels
    \/ ResolveSimulationJobs
    \/ EmitDescriptor

----------------------------------------------------------------------------
(* The calls that are explored: config dictionaries as the parser yields    *)
(* them, by the part of the configuration they vary                        *)

\* an optional keyword of the config dictionary
Opt(keyword, present, value) == IF present THEN keyword :> value ELSE EmptyDict

\* a keyword holding a list of entries is absent when nothing declares it
OptList(keyword, entries) == Opt(keyword, entries # <<>>, entries)

RECURSIVE Grouped(_, _)
\* the parser keeps the entries of one keyword in the order of the file
Grouped(declarations, keyword) ==
    IF declarations = <<>> THEN <<>>
    ELSE IF Head(declarations).keyword = keyword
         THEN <<Head(declarations).entry>> \o Grouped(Tail(declarations), keyword)
         ELSE Grouped(Tail(declarations), keyword)

Invocations(declarations) ==
    OptList("FORWARD_MODEL", Grouped(declarations, "FORWARD_MODEL"))
    @@ OptList("SIMULATION_JOB", Grouped(declarations, "SIMULATION_JOB"))

\* the call explored: its entry point and arguments, nothing done yet
Call(e, file, declarations, config_dict) ==
    /\ entry = e
    /\ user_config_file = file
    /\ decls = declarations
    /\ user_config = config_dict @@ Invocations(declarations)
    /\ config = user_config

\* the entries of a list of declarations chosen by position
Pick(declarations, chosen) == [i \in 1..Len(chosen) |-> declarations[chosen[i]]]

Choices(declarations, n) == SeqsUpTo(1..Len(declarations), n)

MaxQueueOptions == 2

QueueOptions ==
    <<<<"LSF", "MAX_RUNNING", <<"1", "0">>>>,
      <<"LSF", "MAX_RUNNING", <<"-", "1">>>>,
      <<"LOCAL", "MAX_RUNNING", <<"a">>>>,
      <<"LSF", "MAX_RUNNING">>,
      <<"LSF", "LSF_QUEUE", <<"a">>>>,
      <<"LSF", "MAX_RUNNING", <<"1", ".", "5">>>>,
      <<"LSF", "MAX_RUNNING", <<"+", "3">>>>,
      <<"LOCAL", "MAX_RUNNING", <<>>>>,
      <<"LSF", "MAX_RUNNING", <<" ", "7", "_", "0">>>>>>

MaxGenKw == 2

GenKwDeclarations ==
    <<<<<<"KW1">>, <<"kw1.tmpl">>, <<"kw1.txt">>, <<"prior.txt">>>>,
      <<<<"KW2">>, <<"kw2.tmpl">>, <<"INIT_FILES:", "init", "%d">>>>,
      <<<<"KW3">>, <<"kw3.tmpl">>, <<"INIT_FILES:", "init">>>>,
      <<<<"KW4">>, <<"kw4.tmpl">>, <<"init_files:", "init">>, <<"FORWARD_INIT:TRUE">>>>,
      <<<<"KW2">>, <<"other.tmpl">>>>>>

Summary == <<<<"WOPR:OP1">>>>

BadRunpath == <<"run", "%d", "%d", "%d">>

ValidationCalls ==
    \E summary \in BOOLEAN, eclbase \in BOOLEAN,
       queue \in Choices(QueueOptions, MaxQueueOptions),
       gen_kw \in Choices(GenKwDeclarations, MaxGenKw) :
        /\ Len(queue) <= 1 \/ gen_kw = <<>>
        /\ Call("from_dict", NoText, <<>>,
                Opt("SUMMARY", summary, Summary) @@ Opt("ECLBASE", eclbase, <<"ECL", "%d">>)
                @@ OptList("QUEUE_OPTION", Pick(QueueOptions, queue))
                @@ OptList("GEN_KW", Pick(GenKwDeclarations, gen_kw)))

\* INSTALL_JOB and INSTALL_JOB_DIRECTORY declarations of a configuration, together
MaxInstallDeclarations == 3

InstallJobDeclarations ==
    <<<<<<"echo">>, <<"jobs", "echo.job">>>>,
      <<<<"echo">>, <<"/", "cwd", "jobs", "echo_v2.job">>>>,
      <<<<"copy">>, <<"jobdir", "copy">>>>,
      <<<<"broken">>, <<"jobs", "bad.job">>>>>>

JobDirectories ==
    <<<<"jobdir">>, <<"/", "cwd", "emptydir">>, <<"subonly">>, <<"nodir">>, <<"baddir">>>>

JobCalls ==
    \E jobs \in Choices(InstallJobDeclarations, MaxInstallDeclarations),
       dirs \in Choices(JobDirectories, MaxInstallDeclarations) :
        /\ Len(jobs) + Len(dirs) <= MaxInstallDeclarations
        /\ Call("from_dict", NoText, <<>>,
                OptList("INSTALL_JOB", Pick(InstallJobDeclarations, jobs))
                @@ OptList("INSTALL_JOB_DIRECTORY", Pick(JobDirectories, dirs)))

MaxInvocations == 2

FM(name, kind, items) ==
    [keyword |-> "FORWARD_MODEL", entry |-> <<name, [kind |-> kind, items |-> items]>>]

InvocationDeclarations ==
    <<FM(<<"echo">>, "pairs", <<<<"<MSG>", <<"hello">>>>>>),
      FM(<<"echo">>, "str", <<<<"<MSG>", "=", "bye">>>>),
      [keyword |-> "FORWARD_MODEL", entry |-> <<<<"echo">>>>],
      FM(<<"<NAME>">>, "pairs", <<<<"<MSG>", <<"<IENS>">>>>>>),
      [keyword |-> "FORWARD_MODEL", entry |-> <<<<"nosuch">>>>],
      FM(<<"echo">>, "str", <<<<"<MSG>">>>>),
      [keyword |-> "SIMULATION_JOB", entry |-> <<<<"copy">>, <<"a">>, <<"b">>>>],
      [keyword |-> "SIMULATION_JOB", entry |-> <<<<"echo">>, <<"<MSG>">>>>],
      [keyword |-> "SIMULATION_JOB", entry |-> <<<<"missing">>>>]>>

Defines ==
    <<<<>>, <<<<"<MSG>", <<"global">>>>, <<"<NAME>", <<"echo">>>>>>>>

TwoJobs == <<<<<<"echo">>, <<"jobs", "echo.job">>>>, <<<<"copy">>, <<"jobdir", "copy">>>>>>

InvocationCalls ==
    \E declarations \in Choices(InvocationDeclarations, MaxInvocations),
       defines \in 1..Len(Defines) :
        Call("from_dict", NoText, Pick(InvocationDeclarations, declarations),
             OptList("DEFINE", Defines[defines]) @@ ("INSTALL_JOB" :> TwoJobs))

MaxHooks == 2

HookDeclarations ==
    <<<<"print_wf", "PRE_SIMULATION">>, <<"export_wf", "PRE_SIMULATION">>,
      <<"no_such_workflow", "PRE_SIMULATION">>, <<"print_wf", "POST_UPDATE">>,
      <<"print_wf", "NO_SUCH_MODE">>>>

\* LOAD_WORKFLOW_JOB and WORKFLOW_JOB_DIRECTORY
WorkflowJobDeclarations ==
    <<[jobs |-> <<>>, dirs |-> <<>>],
      [jobs |-> <<<<<<"wfjobs", "PRINT">>>>>>, dirs |-> <<>>],
      [jobs |-> <<<<<<"wfjobs", "PRINT">>>>, <<<<"wfjobs", "NOSCRIPT">>>>>>, dirs |-> <<>>],
      [jobs |-> <<<<<<"wfjobs", "PRINT">>>>, <<<<"wfjobs", "MALFORMED">>>>>>, dirs |-> <<>>],
      [jobs |-> <<<<<<"wfjobs", "PRINT">>, "EXPORT">>>>, dirs |-> <<<<"nodir">>>>],
      [jobs |-> <<<<<<"wfjobs", "PRINT">>>>>>, dirs |-> <<<<"wfjobdir">>>>],
      [jobs |-> <<<<<<"wfjobs", "MALFORMED">>>>>>, dirs |-> <<<<"wfbaddir">>, <<"wfjobdir">>>>]>>

WorkflowDeclarations ==
    <<<<>>,
      <<<<<<"wf", "print_wf">>>>>>,
      <<<<<<"wf", "print_wf">>>>, <<<<"wf", "export_wf">>>>>>,
      <<<<<<"wf", "print_wf">>>>, <<<<"wf2", "print_wf">>>>>>,
      <<<<<<"wf", "export_wf">>, "print_wf">>>>>>

WorkflowCalls ==
    \E jobs \in 1..Len(WorkflowJobDeclarations), wfs \in 1..Len(WorkflowDeclarations),
       hooks \in Choices(HookDeclarations, MaxHooks) :
        Call("from_dict", NoText, <<>>,
             OptList("LOAD_WORKFLOW_JOB", WorkflowJobDeclarations[jobs].jobs)
             @@ OptList("WORKFLOW_JOB_DIRECTORY", WorkflowJobDeclarations[jobs].dirs)
             @@ OptList("LOAD_WORKFLOW", WorkflowDeclarations[wfs])
             @@ OptList("HOOK_WORKFLOW", Pick(HookDeclarations, hooks)))

\* user config files and, for each, the directory it is in
UserConfigFiles ==
    <<[path |-> <<"/", "proj", "config.ert">>, dir |-> <<"/", "proj">>],
      [path |-> <<"config.ert">>, dir |-> <<"/", "cwd">>],
      [path |-> <<"sub", "config.ert">>, dir |-> <<"/", "cwd", "sub">>],
      [path |-> <<"..", "proj", "config.ert">>, dir |-> <<"/", "proj">>]>>

EnspathDeclarations == <<<<>>, <<"/", "data", "ens">>, <<"my_storage">>>>

RunpathFileDeclarations == <<<<>>, <<"/", "data", "runpaths">>, <<"..", "runpaths">>>>

\* the warning_infos attribute the parser leaves on the config dict
ParseWarnings == <<Warning("Keyword is deprecated", <<"HAVANA_FAULT">>)>>

FileCalls ==
    \E file \in 1..Len(UserConfigFiles), declarations \in Choices(InvocationDeclarations, 1),
       enspath \in 1..Len(EnspathDeclarations),
       runpath_file \in 1..Len(RunpathFileDeclarations), summary \in BOOLEAN,
       parse_warning \in BOOLEAN :
        /\ declarations \in {<<>>, <<1>>}
        /\ Call("from_file", UserConfigFiles[file].path,
                Pick(InvocationDeclarations, declarations),
                ("DEFINE" :> <<<<"<CONFIG_PATH>", UserConfigFiles[file].dir>>,
                               <<"<CONFIG_FILE>", <<basename(UserConfigFiles[file].path)>>>>>>)
                @@ ("INSTALL_JOB" :> TwoJobs)
                @@ Opt("ENSPATH", enspath > 1, EnspathDeclarations[enspath])
                @@ Opt("RUNPATH_FILE", runpath_file > 1, RunpathFileDeclarations[runpath_file])
                @@ Opt("SUMMARY", summary, Summary)
                @@ Opt("warning_infos", parse_warning, ParseWarnings))

ThreeJobs == Append(TwoJobs, <<<<"env">>, <<"jobs", "env.job">>>>)

\* invocations of jobs that declare environment mappings and log files
EnvironmentDeclarations ==
    <<[keyword |-> "FORWARD_MODEL", entry |-> <<<<"env">>>>],
      FM(<<"env">>, "pairs", <<<<"<LANG>", <<"C">>>>>>),
      FM(<<"env">>, "pairs", <<<<"<MSG>", <<"<IENS>">>>>>>),
      [keyword |-> "FORWARD_MODEL", entry |-> <<<<"echo">>>>]>>

EnvironmentCalls ==
    \E declarations \in Choices(EnvironmentDeclarations, MaxInvocations),
       defines \in 1..Len(Defines) :
        Call("from_dict", NoText, Pick(EnvironmentDeclarations, declarations),
             OptList("DEFINE", Defines[defines]) @@ ("INSTALL_JOB" :> ThreeJobs))

\* invocations of a job that declares an environment entry with the empty
\* string as its value
BlankDeclarations ==
    <<[keyword |-> "FORWARD_MODEL", entry |-> <<<<"blank">>>>],
      [keyword |-> "FORWARD_MODEL", entry |-> <<<<"echo">>>>]>>

BlankCalls ==
    \E declarations \in Choices(BlankDeclarations, MaxInvocations) :
        Call("from_dict", NoText, Pick(BlankDeclarations, declarations),
             "INSTALL_JOB" :> <<<<<<"blank">>, <<"jobs", "blank.job">>>>,
                                <<<<"echo">>, <<"jobs", "echo.job">>>>>>)

DataFiles == <<<<>>, <<"ok.DATA">>, <<"latin1.DATA">>>>

\* at most one error per loading phase
PhaseCalls ==
    \E unknown_job \in BOOLEAN, queue \in BOOLEAN, gen_kw \in BOOLEAN, runpath \in BOOLEAN,
       hook \in BOOLEAN, bad_job \in BOOLEAN, data_file \in 1..Len(DataFiles) :
        Call("from_dict", NoText,
             <<[keyword |-> "FORWARD_MODEL",
                entry |-> <<IF unknown_job THEN <<"nosuch">> ELSE <<"echo">>>>]>>,
             OptList("QUEUE_OPTION",
                     IF queue THEN <<<<"LSF", "MAX_RUNNING", <<"a">>>>>> ELSE <<>>)
             @@ OptList("GEN_KW",
                        IF gen_kw
                        THEN <<<<<<"KW3">>, <<"kw3.tmpl">>, <<"INIT_FILES:", "init">>>>>>
                        ELSE <<>>)
             @@ Opt("RUNPATH", runpath, BadRunpath)
             @@ OptList("HOOK_WORKFLOW",
                        IF hook THEN <<<<"no_such_workflow", "PRE_SIMULATION">>>> ELSE <<>>)
             @@ ("INSTALL_JOB" :> IF bad_job
                                  THEN Append(TwoJobs, <<<<"broken">>, <<"jobs", "bad.job">>>>)
                                  ELSE TwoJobs)
             @@ ("ECLBASE" :> <<"ECL", "%d">>)
             @@ Opt("DATA_FILE", data_file > 1, DataFiles[data_file]))

Init ==
    /\ \/ ValidationCalls
       \/ JobCalls
       \/ InvocationCalls
       \/ WorkflowCalls
       \/ FileCalls
       \/ EnvironmentCalls
       \/ BlankCalls
       \/ PhaseCalls
    /\ pc = entry
    /\ errors = <<>>
    /\ raised = <<>>
    /\ warned = <<>>
    /\ substitution_list = EmptyDict
    /\ heap = <<>>
    /\ workflow_jobs = EmptyDict
    /\ workflows = EmptyDict
    /\ hooked_workflows = EmptyDict
    /\ installed_jobs = EmptyDict
    /\ model_config = NoObject
    /\ locals = NoObject
    /\ origins = <<>>
    /\ ert = NoObject
    /\ descriptor = NoObject

Spec == Init /\ [][Next]_vars

----------------------------------------------------------------------------
(* Properties of the loading call *)

\* the entries of the raised exception with message m
RaisedWith(m) == {i \in 1..Len(raised) : raised[i].message = m}

\* the QUEUE_OPTION entries of the call whose MAX_RUNNING value is no
\* non-negative integer: "-1", "a", "1.5" and the empty string
MalformedMaxRunning ==
    LET options == Get(user_config, "QUEUE_OPTION", <<>>)
    IN  {i \in 1..Len(options) :
            options[i] \in {QueueOptions[2], QueueOptions[3], QueueOptions[6],
                            QueueOptions[8]}}

SummaryWithoutEclbase ==
    "SUMMARY" \in DOMAIN user_config /\ "ECLBASE" \notin DOMAIN user_config

\* the two hard errors of the dictionary checks, and no more than these two
TwoDictViolations ==
    /\ SummaryWithoutEclbase
    /\ Cardinality(MalformedMaxRunning) = 1
    /\ "GEN_KW" \notin DOMAIN user_config

\* C1: a configuration with exactly two independent hard errors, a malformed
\* MAX_RUNNING queue option and SUMMARY without ECLBASE, never gets past the
\* dictionary checks of from_dict, and the error it raises holds exactly two
\* entries, one for each violation
C1_BothErrorsReported ==
    TwoDictViolations =>
        /\ pc \in {"from_file", "from_dict", "raised"}
        /\ ert = NoObject
        /\ pc = "raised" =>
              /\ Len(raised) = 2
              /\ Cardinality(RaisedWith(
                     "When using SUMMARY keyword, the config must also specify ECLBASE")) = 1
              /\ Cardinality(RaisedWith("QUEUE_OPTION MAX_RUNNING is not an integer")
                             \cup RaisedWith("QUEUE_OPTION MAX_RUNNING is negative")) = 1

C1_Witness ==
    /\ TwoDictViolations
    /\ pc = "raised"
    /\ Len(raised) = 2
    /\ Len(Get(user_config, "QUEUE_OPTION", <<>>)) = 2

\* a loader holds errors it has collected and not yet raised
LoaderHoldsErrors ==
    locals # NoObject /\ "errors" \in DOMAIN locals /\ locals.errors # <<>>

HardErrorRecorded == errors # <<>> \/ LoaderHoldsErrors

\* C2: construction is all-or-nothing: an ErtConfig exists exactly when
\* from_dict has returned, it has returned only if no error was recorded, a
\* raise leaves no ErtConfig behind, and once a loading phase has recorded a
\* hard error the call keeps it until it raises and never returns
C2_AllOrNothing ==
    /\ [](/\ (pc = "returned") <=> (ert # NoObject)
          /\ pc = "returned" => errors = <<>> /\ raised = <<>>
          /\ pc = "raised" => raised # <<>> /\ ert = NoObject)
    /\ [][HardErrorRecorded =>
              /\ pc' # "returned"
              /\ ert' = NoObject
              /\ HardErrorRecorded' \/ pc' = "raised"]_vars

C2_Witness ==
    /\ pc = "raised"
    /\ Len(errors) >= 2
    /\ Len(raised) >= 2
    /\ ert = NoObject

\* the objects a job owns: itself, its argument list and its private scope
Owned(ref) == {ref, heap[ref].arglist, heap[ref].private_args}

\* what a reader of the registry sees of each registered job
RegistryView ==
    [name \in DOMAIN installed_jobs |->
        LET ref == installed_jobs[name]
        IN  <<heap[ref], heap[heap[ref].arglist], heap[heap[ref].private_args]>>]

\* the job list of read_forward_model, while it is built and once returned
JobList ==
    IF pc = "returned" THEN ert.forward_model_list
    ELSE IF pc = "simulation_jobs" THEN locals.jobs
    ELSE <<>>

JobOrigins ==
    IF pc = "returned" THEN origins
    ELSE IF pc = "simulation_jobs" THEN locals.origins
    ELSE <<>>

\* the private scope an invocation declares: the key=value arguments of a
\* FORWARD_MODEL entry, none for a SIMULATION_JOB entry
ScopeOf(keyword, declared) ==
    LET items == IF keyword = "FORWARD_MODEL" /\ Len(declared) > 1 THEN declared[2].items
                 ELSE <<>>
        last(key) == CHOOSE i \in 1..Len(items) :
                        /\ items[i][1] = key
                        /\ \A j \in 1..Len(items) : items[j][1] = key => j <= i
    IN  [key \in {items[i][1] : i \in 1..Len(items)} |->
            IF declared[2].kind = "str" THEN <<items[last(key)][3]>> ELSE items[last(key)][2]]

DeclaredScope(origin) == ScopeOf(origin[1], config[origin[1]][origin[2]])

JobsAreIsolated ==
    \A i \in 1..Len(JobList) :
        /\ Cardinality(Owned(JobList[i])) = 3
        /\ \A name \in DOMAIN installed_jobs :
              Owned(JobList[i]) \cap Owned(installed_jobs[name]) = {}
        /\ \A j \in 1..Len(JobList) :
              j # i => Owned(JobList[i]) \cap Owned(JobList[j]) = {}
        /\ heap[heap[JobList[i]].private_args].items = DeclaredScope(JobOrigins[i])

\* C3: every job of the forward-model list is an object of its own, sharing
\* neither itself nor its argument list nor its private scope with the
\* registry or with another invocation, so N invocations of one registry job
\* are N distinct objects; its private scope holds the arguments of its own
\* declaration and nothing else; and no step of the call changes a job of the
\* registry once the registry is built
C3_InvocationsIsolated ==
    /\ []JobsAreIsolated
    /\ [][installed_jobs' = installed_jobs => RegistryView' = RegistryView]_vars

C3_Witness ==
    /\ pc = "returned"
    /\ \E i, j \in 1..Len(JobList) :
          /\ i # j
          /\ heap[JobList[i]].name = heap[JobList[j]].name
          /\ heap[heap[JobList[i]].private_args].items
                 # heap[heap[JobList[j]].private_args].items
          /\ heap[heap[installed_jobs[heap[JobList[i]].name]].private_args].items = EmptyDict

\* the job definitions the declarations of the call name and that load, in
\* the order _installed_jobs_from_dict reads them: INSTALL_JOB entries first,
\* then the files of each INSTALL_JOB_DIRECTORY in listing order
JobDefinitions ==
    LET jobs == Get(user_config, "INSTALL_JOB", <<>>)
        dirs == Get(user_config, "INSTALL_JOB_DIRECTORY", <<>>)
        Listed(dir) ==
            IF isdir(dir)
            THEN [i \in 1..Len(listdir(dir)) |->
                     [name |-> <<listdir(dir)[i]>>,
                      file |-> abspath(join(dir, <<listdir(dir)[i]>>))]]
            ELSE <<>>
        Loads(d) == isfile(d.file) /\ FileSystem[d.file].parses
    IN  SelectSeq([i \in 1..Len(jobs) |-> [name |-> jobs[i][1], file |-> abspath(jobs[i][2])]]
                  \o Flatten([i \in 1..Len(dirs) |-> Listed(dirs[i])]),
                  Loads)

\* every declared job definition loads and every declared directory exists
AllJobsLoad ==
    LET jobs == Get(user_config, "INSTALL_JOB", <<>>)
        dirs == Get(user_config, "INSTALL_JOB_DIRECTORY", <<>>)
    IN  /\ \A i \in 1..Len(jobs) : isfile(jobs[i][2]) /\ FileSystem[abspath(jobs[i][2])].parses
        /\ \A i \in 1..Len(dirs) :
              /\ isdir(dirs[i])
              /\ \A k \in 1..Len(listdir(dirs[i])) :
                    LET file == abspath(join(dirs[i], <<listdir(dirs[i])[k]>>))
                    IN  isfile(file) => FileSystem[file].parses

IsDuplicateWarning(w) == w.message = "Duplicate forward model job"

\* one warning for each definition whose name an earlier definition has
\* taken, naming the later source and the executable it replaces
ExpectedDuplicateWarnings ==
    LET D == JobDefinitions
        Earlier(k) == {j \in 1..(k - 1) : D[j].name = D[k].name}
        Previous(k) == CHOOSE j \in Earlier(k) : \A h \in Earlier(k) : h <= j
    IN  Flatten([k \in 1..Len(D) |->
                    IF Earlier(k) = {} THEN <<>>
                    ELSE <<Warning("Duplicate forward model job",
                                   <<D[k].name, D[k].file,
                                     FileSystem[D[Previous(k)].file].executable>>)>>])

\* C4: when two job declarations that load have the same name, the later
\* one wins: after _installed_jobs_from_dict the registry maps each name to
\* the last definition read for it, exactly one duplicate-name warning was
\* emitted for each definition that replaced an earlier one, and the
\* duplicate is no error
C4_LastDefinitionWins ==
    pc \in {"check", "templates", "forward_model", "simulation_jobs", "returned"} =>
        /\ SelectSeq(warned, IsDuplicateWarning) = ExpectedDuplicateWarnings
        /\ AllJobsLoad =>
              LET D == JobDefinitions
              IN  /\ DOMAIN installed_jobs = {D[k].name : k \in 1..Len(D)}
                  /\ \A k \in 1..Len(D) :
                        (\A j \in (k + 1)..Len(D) : D[j].name # D[k].name)
                            => heap[installed_jobs[D[k].name]].executable
                                   = FileSystem[D[k].file].executable
                  /\ \A i \in 1..Len(from_collected(errors)) :
                        from_collected(errors)[i].message
                            \notin {"Could not load job definition",
                                    "Unable to locate job directory"}

C4_Witness ==
    /\ pc = "check"
    /\ AllJobsLoad
    /\ errors = <<>>
    /\ Len(SelectSeq(warned, IsDuplicateWarning)) = 2
    /\ Cardinality(DOMAIN installed_jobs) = 2

\* the HOOK_WORKFLOW entries of the call that name, for a stage that exists,
\* a workflow that no LOAD_WORKFLOW entry declares
DanglingHooks ==
    LET hooks == Get(user_config, "HOOK_WORKFLOW", <<>>)
        work  == Get(user_config, "LOAD_WORKFLOW", <<>>)
        names == {IF Len(work[i]) = 1 THEN basename(work[i][1]) ELSE work[i][2] :
                      i \in 1..Len(work)}
    IN  {i \in 1..Len(hooks) : hooks[i][2] \in HookRuntime /\ hooks[i][1] \notin names}

\* C5: when _workflows_from_dict has ended on a configuration with a
\* HOOK_WORKFLOW declaration that names a workflow that is not loaded, it has
\* raised a hard error that refers to that workflow name, and it has
\* returned no hook binding
C5_DanglingHookReported ==
    pc = "jobs" =>
        \A h \in DanglingHooks :
            /\ \E k \in 1..Len(from_collected(errors)) :
                  /\ from_collected(errors)[k].message
                         = "Cannot setup hook for non-existing job name"
                  /\ from_collected(errors)[k].about = user_config["HOOK_WORKFLOW"][h][1]
            /\ hooked_workflows = EmptyDict

\* the only invocation is FORWARD_MODEL echo(<MSG>=hello)
EchoHello ==
    /\ Len(decls) = 1
    /\ decls[1].keyword = "FORWARD_MODEL"
    /\ Len(decls[1].entry) = 2
    /\ decls[1].entry[1] = <<"echo">>
    /\ decls[1].entry[2].kind = "pairs"
    /\ decls[1].entry[2].items = <<<<"<MSG>", <<"hello">>>>>>

\* C6: with the job echo installed and the single invocation
\* FORWARD_MODEL echo(<MSG>=hello), the forward-model list has one job, and the
\* descriptor of any realization and iteration has one job entry in which
\* every argument the job definition gives as <MSG> reads hello
C6_PrivateArgumentReachesDescriptor ==
    EchoHello /\ pc = "returned" =>
        /\ Len(ert.forward_model_list) = 1
        /\ descriptor # NoObject =>
              /\ descriptor.raises = None
              /\ Len(descriptor.jobList) = 1
              /\ LET arglist == heap[heap[ert.forward_model_list[1]].arglist].items
                 IN  /\ Len(descriptor.jobList[1].argList) = Len(arglist)
                     /\ \E i \in 1..Len(arglist) : arglist[i] = <<"<MSG>">>
                     /\ \A i \in 1..Len(arglist) :
                           arglist[i] = <<"<MSG>">>
                               => descriptor.jobList[1].argList[i] = <<"hello">>

C6_Witness ==
    /\ EchoHello
    /\ pc = "returned"
    /\ descriptor # NoObject
    /\ descriptor.iens = 1
    /\ descriptor.itr = 1
    /\ "<MSG>" \in DOMAIN ert.substitution_list
    /\ descriptor.jobList[1].argList[1] = <<"hello">>

\* C7: an ErtConfig that from_file returns for a file that declares no
\* ENSPATH has the ensemble path <config_dir>/storage, config_dir being the
\* absolute directory of the file; a declared ENSPATH is kept as declared
C7_DefaultEnsPath ==
    entry = "from_file" /\ pc = "returned" =>
        IF "ENSPATH" \in DOMAIN user_config
        THEN ert.ens_path = user_config["ENSPATH"]
        ELSE \E f \in 1..Len(UserConfigFiles) :
                /\ UserConfigFiles[f].path = user_config_file
                /\ ert.ens_path = UserConfigFiles[f].dir \o <<"storage">>

C7_Witness ==
    /\ entry = "from_file"
    /\ pc = "returned"
    /\ "ENSPATH" \notin DOMAIN user_config
    /\ user_config_file = <<"..", "proj", "config.ert">>
    /\ ert.ens_path = <<"/", "proj", "storage">>

\* the job a declaration asks for: <NAME> is defined as echo wherever a
\* declaration uses it and the call returns
AskedName(d) == IF d.entry[1] = <<"<NAME>">> THEN <<"echo">> ELSE d.entry[1]

\* the job object ref is what declaration d asks for: the named job, with
\* the private scope of a FORWARD_MODEL declaration or the argument list of
\* a SIMULATION_JOB declaration
Describes(ref, d) ==
    /\ heap[ref].name = AskedName(d)
    /\ heap[heap[ref].private_args].items = ScopeOf(d.keyword, d.entry)
    /\ heap[heap[ref].arglist].items =
           IF d.keyword = "SIMULATION_JOB" THEN Tail(d.entry)
           ELSE heap[heap[installed_jobs[AskedName(d)]].arglist].items

IsForwardModel(d) == d.keyword = "FORWARD_MODEL"

IsSimulationJob(d) == d.keyword = "SIMULATION_JOB"

\* C8 as stated: the forward-model list has one entry per invocation, in the
\* order the two declaration styles appear in the configuration: an
\* invocation declared earlier never comes after one declared later
C8_FileOrder ==
    pc = "returned" =>
        /\ Len(ert.forward_model_list) = Len(decls)
        /\ \A p \in 1..Len(decls) : Describes(ert.forward_model_list[p], decls[p])

\* C8: the forward-model list has one entry per invocation; the
\* FORWARD_MODEL invocations come first, in the order they are declared, and
\* the SIMULATION_JOB invocations follow them, in the order they are
\* declared, wherever the two styles stand relative to each other
C8_OrderWithinStyle ==
    pc = "returned" =>
        LET expected == SelectSeq(decls, IsForwardModel) \o SelectSeq(decls, IsSimulationJob)
        IN  /\ Len(ert.forward_model_list) = Len(decls)
            /\ \A p \in 1..Len(expected) :
                  Describes(ert.forward_model_list[p], expected[p])

C8_Witness ==
    /\ pc = "returned"
    /\ Len(decls) = 2
    /\ decls[1].keyword = "SIMULATION_JOB"
    /\ decls[2].keyword = "FORWARD_MODEL"
    /\ Describes(ert.forward_model_list[1], decls[2])
    /\ Describes(ert.forward_model_list[2], decls[1])

IsLookupFailure(e) ==
    e.message \in {"Could not find job in list of installed jobs:",
                   "Could not find job in list of installed jobs."}

\* the invocations that name a job the registry does not hold
UnknownInvocations ==
    {p \in 1..Len(decls) :
        decls[p].entry[1] \notin DOMAIN installed_jobs
        /\ ~(decls[p].entry[1] = <<"<NAME>">> /\ "<NAME>" \in DOMAIN substitution_list)}

\* C9: when read_forward_model raises for names the registry does not hold,
\* the error it raises has exactly one entry per unknown invocation, of either
\* declaration style, and each of these entries lists the names the registry
\* knows
C9_LookupErrorListsRegistry ==
    pc = "raised" /\ (\E k \in 1..Len(raised) : IsLookupFailure(raised[k])) =>
        /\ Cardinality({k \in 1..Len(raised) : IsLookupFailure(raised[k])})
               = Cardinality(UnknownInvocations)
        /\ \A k \in 1..Len(raised) :
              IsLookupFailure(raised[k]) => raised[k].listed = <<DOMAIN installed_jobs>>

\* the GEN_KW entries of the call that _validate_ensemble_config rejects:
\* INIT_FILES without %d, and FORWARD_INIT:TRUE
RejectedGenKw ==
    LET gen_kw == Get(user_config, "GEN_KW", <<>>)
    IN  {i \in 1..Len(gen_kw) : gen_kw[i] \in {GenKwDeclarations[3], GenKwDeclarations[4]}}

\* C10: a configuration with one error of the dictionary validation and one
\* error of the ensemble-config validation makes from_dict raise once, with
\* both errors in what it raises
C10_ValidationErrorsConcatenated ==
    /\ SummaryWithoutEclbase
    /\ MalformedMaxRunning = {}
    /\ Len(Get(user_config, "GEN_KW", <<>>)) = 1
    /\ RejectedGenKw = {1}
    /\ pc = "raised"
    => /\ RaisedWith("When using SUMMARY keyword, the config must also specify ECLBASE") # {}
       /\ RaisedWith("Loading GEN_KW from files requires %d in file format")
              \cup RaisedWith(
                  "Loading GEN_KW from files created by the forward model is not supported.")
              # {}

\* the workflow-job files the configuration declares, with the name each
\* would register under: the LOAD_WORKFLOW_JOB entries, then the files of
\* the WORKFLOW_JOB_DIRECTORY entries that are directories
DeclaredWorkflowJobs ==
    LET jobs == Get(user_config, "LOAD_WORKFLOW_JOB", <<>>)
        dirs == Get(user_config, "WORKFLOW_JOB_DIRECTORY", <<>>)
    IN  {[path |-> abspath(jobs[i][1]),
          name |-> IF Len(jobs[i]) = 1 THEN basename(jobs[i][1]) ELSE jobs[i][2]] :
             i \in 1..Len(jobs)}
        \cup {[path |-> f, name |-> basename(f)] :
                  f \in {g \in DOMAIN WorkflowFileSystem :
                            /\ WorkflowFileSystem[g].type = "file"
                            /\ \E i \in 1..Len(dirs) :
                                  g = abspath(dirs[i]) \o <<g[Len(g)]>>}}

\* how the declared workflow-job files fare, read off the files
WorkflowJobsWith(outcome) ==
    {d \in DeclaredWorkflowJobs :
        /\ d.path \in DOMAIN WorkflowFileSystem
        /\ "wfjob" \in DOMAIN WorkflowFileSystem[d.path]
        /\ WorkflowFileSystem[d.path].wfjob = outcome}

RegisteredWorkflowJobNames == {d.name : d \in WorkflowJobsWith("ok")}

\* the LOAD_WORKFLOW entries whose file calls a job that is not registered
WorkflowsCallingUnregistered ==
    LET work == Get(user_config, "LOAD_WORKFLOW", <<>>)
    IN  {i \in 1..Len(work) :
            LET f == WorkflowFileSystem[abspath(work[i][1])]
            IN  \E k \in 1..Len(f.workflow) :
                    f.workflow[k] \notin RegisteredWorkflowJobNames}

\* C11: a configuration with a LOAD_WORKFLOW entry whose workflow calls a
\* job that is not among the registered workflow jobs makes loading fail:
\* from_dict does not return a configuration for it
C11_UnregisteredJobFailsLoading ==
    entry \in {"from_dict", "from_file"} /\ WorkflowsCallingUnregistered # {}
        => pc # "returned"

IsPrefix(s, t) == Len(s) <= Len(t) /\ SubSeq(t, 1, Len(s)) = s

\* the warnings of the loaders that are absent from the warning_infos of the
\* returned configuration
UnreportedWarnings ==
    {i \in 1..Len(warned) :
        \A k \in 1..Len(ert.warning_infos) :
            \/ ert.warning_infos[k].message # warned[i].message
            \/ ert.warning_infos[k] # warned[i]}

\* C12: no step of loading removes a warning from the warning channel,
\* whether loading goes on to return or to raise, and the warning_infos of a
\* returned configuration hold every warning given during loading
C12_WarningsNeverLost ==
    /\ [][IsPrefix(warned, warned')]_vars
    /\ [](pc = "returned" => UnreportedWarnings = {})

Emitted == descriptor # NoObject /\ descriptor.raises = None

\* the entries of an emitted environment mapping whose value holds a macro
\* token that no substitution replaced
UnresolvedEntries(env) ==
    IF env = NoObject THEN {}
    ELSE {key \in DOMAIN env : \E k \in 1..Len(env[key]) : env[key][k] \in MacroTokens}

\* C13: in the job entries of an emitted descriptor, no value of environment
\* or exec_env holds an unresolved macro token at any position
C13_UnresolvedValuesDropped ==
    Emitted =>
        \A i \in 1..Len(descriptor.jobList) :
            /\ UnresolvedEntries(descriptor.jobList[i].environment) = {}
            /\ UnresolvedEntries(descriptor.jobList[i].exec_env) = {}

\* the workflows the HOOK_WORKFLOW declarations of the call bind to a stage,
\* in the order of the declarations
DeclaredBindings(stage) ==
    LET hooks == Get(user_config, "HOOK_WORKFLOW", <<>>)
        AtStage(h) == h[2] = stage
        bound == SelectSeq(hooks, AtStage)
    IN  [i \in 1..Len(bound) |-> ert.workflows[bound[i][1]]]

\* C14: in a returned configuration, the list hooked_workflows holds for a
\* stage is the workflows of the HOOK_WORKFLOW declarations for that stage, in
\* declaration order and with repetitions, and it holds nothing for a name
\* that is not a stage
C14_HookOrder ==
    entry \in {"from_dict", "from_file"} /\ pc = "returned" =>
        /\ DOMAIN ert.hooked_workflows \subseteq HookRuntime
        /\ \A stage \in HookRuntime :
              /\ \A i \in 1..Len(DeclaredBindings(stage)) :
                    DeclaredBindings(stage)[i].src_file # NoText
              /\ Get(ert.hooked_workflows, stage, <<>>) = DeclaredBindings(stage)

C14_Witness ==
    /\ pc = "returned"
    /\ Get(user_config, "HOOK_WORKFLOW", <<>>)
           = <<<<"export_wf", "PRE_SIMULATION">>, <<"print_wf", "PRE_SIMULATION">>>>
    /\ Len(Get(ert.hooked_workflows, "PRE_SIMULATION", <<>>)) = 2
    /\ ert.hooked_workflows["PRE_SIMULATION"][1].src_file = <<"/", "cwd", "wf", "export_wf">>
    /\ ert.hooked_workflows["PRE_SIMULATION"][2].src_file = <<"/", "cwd", "wf", "print_wf">>

\* the declared job directories that do not exist, and those that exist and
\* hold no file, in declaration order
MissingJobDirectories ==
    LET Missing(dir) == dir = <<"nodir">>
    IN  SelectSeq(Get(user_config, "INSTALL_JOB_DIRECTORY", <<>>), Missing)

EmptyJobDirectories ==
    LET Empty(dir) == dir \in {<<"/", "cwd", "emptydir">>, <<"subonly">>}
    IN  SelectSeq(Get(user_config, "INSTALL_JOB_DIRECTORY", <<>>), Empty)

IsMissingDirectoryError(e) == e.message = "Unable to locate job directory"

IsEmptyDirectoryWarning(w) == w.message = "No files found in job directory"

Abouts(records) == [i \in 1..Len(records) |-> records[i].about]

\* C15: when _installed_jobs_from_dict has ended, the error from_dict
\* recorded for it holds one entry for every declared job directory that does
\* not exist, whatever was declared before or after it, all in one raise; a
\* directory that exists without files gave one warning and no error
C15_JobDirectoryOutcomes ==
    entry = "from_dict" /\ pc = "check" =>
        /\ Abouts(SelectSeq(from_collected(errors), IsMissingDirectoryError))
               = MissingJobDirectories
        /\ Abouts(SelectSeq(warned, IsEmptyDirectoryWarning)) = EmptyJobDirectories
        /\ MissingJobDirectories # <<>> =>
               \E k \in 1..Len(errors) :
                   /\ IsCVE(errors[k])
                   /\ Abouts(SelectSeq(from_collected(<<errors[k]>>), IsMissingDirectoryError))
                          = MissingJobDirectories
        /\ /\ AllJobsLoad
           /\ EmptyJobDirectories # <<>>
           /\ DOMAIN user_config \subseteq {"INSTALL_JOB", "INSTALL_JOB_DIRECTORY"}
           => errors = <<>>

C15_Witness ==
    /\ pc = "check"
    /\ Get(user_config, "INSTALL_JOB_DIRECTORY", <<>>)
           = <<<<"nodir">>, <<"/", "cwd", "emptydir">>, <<"nodir">>>>
    /\ Len(SelectSeq(from_collected(errors), IsMissingDirectoryError)) = 2
    /\ Len(SelectSeq(warned, IsEmptyDirectoryWarning)) = 1

IsWorkflowJobError(e) == e.message = "Malformed workflow job declaration"

IsScriptFailureWarning(w) ==
    w.message = "Loading workflow job failed. It will not be loaded."

\* C16: every declared workflow job is registered, or gave one warning (its
\* script does not load), or gave one error (its declaration is malformed).
\* Without a malformed declaration no error is recorded for the workflow
\* jobs and the registry of the returned configuration holds exactly the
\* jobs that loaded; the malformed declarations are all in one raised error
C16_WorkflowJobOutcomes ==
    /\ entry = "from_dict"
           /\ pc \in {"load_workflows", "hook_workflows", "jobs", "job_dirs", "check", "returned"}
        => /\ Cardinality({i \in 1..Len(warned) : IsScriptFailureWarning(warned[i])})
                  = Cardinality(WorkflowJobsWith("script_failure"))
           /\ Cardinality({k \in 1..Len(from_collected(errors)) :
                               IsWorkflowJobError(from_collected(errors)[k])})
                  = Cardinality(WorkflowJobsWith("malformed"))
           /\ WorkflowJobsWith("malformed") # {} =>
                  \E k \in 1..Len(errors) :
                      /\ IsCVE(errors[k])
                      /\ Cardinality({j \in 1..Len(from_collected(<<errors[k]>>)) :
                                          IsWorkflowJobError(from_collected(<<errors[k]>>)[j])})
                             = Cardinality(WorkflowJobsWith("malformed"))
    /\ entry = "from_dict" /\ pc = "load_workflows"
        => DOMAIN locals.workflow_jobs = RegisteredWorkflowJobNames
    /\ entry = "from_dict" /\ pc = "returned"
        => DOMAIN ert.workflow_jobs = RegisteredWorkflowJobNames

C16_Witness ==
    /\ pc = "returned"
    /\ WorkflowJobsWith("script_failure") # {}
    /\ \E i \in 1..Len(warned) : IsScriptFailureWarning(warned[i])
    /\ DOMAIN ert.workflow_jobs = {"PRINT"}

\* the invocations env(<MSG>=<IENS>) of a call whose jobs are ThreeJobs; the
\* job env declares the environment entry MSG with the value <MSG>
RealizationInEnvironment ==
    IF Get(user_config, "INSTALL_JOB", <<>>) = ThreeJobs
    THEN {i \in 1..Len(decls) : decls[i] = EnvironmentDeclarations[3]}
    ELSE {}

\* C17: emitting a descriptor changes neither the substitution table, nor
\* the forward-model list, nor any object of a job (its private scope
\* included), and a descriptor emitted for a realization carries the number
\* of that realization wherever a private argument asks for <IENS>, whatever
\* was emitted before it
C17_NoLeakage ==
    /\ [][pc = "returned" => /\ ert' = ert
                             /\ substitution_list' = substitution_list
                             /\ heap' = heap
                             /\ installed_jobs' = installed_jobs]_vars
    /\ [](Emitted =>
            \A i \in RealizationInEnvironment :
                /\ descriptor.jobList[i].environment # NoObject
                /\ <<"MSG">> \in DOMAIN descriptor.jobList[i].environment
                /\ descriptor.jobList[i].environment[<<"MSG">>]
                       = <<ToString(descriptor.iens)>>)

C17_Witness ==
    /\ Emitted
    /\ descriptor.iens = 1
    /\ descriptor.itr = 0
    /\ RealizationInEnvironment = {1, 2}
    /\ descriptor.jobList[2].environment[<<"MSG">>] = <<"1">>

\* the value <MSG> takes for invocation i of the job env: its private
\* argument if it has one, else the DEFINE of the call, else <MSG> itself
MsgOfInvocation(i) ==
    IF decls[i] = EnvironmentDeclarations[3] THEN ToString(descriptor.iens)
    ELSE IF "<MSG>" \in DOMAIN ert.substitution_list
    THEN ert.substitution_list["<MSG>"][1]
    ELSE "<MSG>"

\* the 0-based position of entry i, as the suffix of a log file name
Ordinal(i) == <<".", ToString(i - 1)>>

\* C18: in an emitted job list, entry i of a job that declares the stdout
\* file job.stdout (echo, copy) has the stdout job.stdout.(i-1) and no stderr;
\* entry i of the job env, which declares the stderr file <MSG>.err and no
\* stdout, has the stderr <value of MSG>.err.(i-1) and no stdout; and no two
\* entries share a stdout or a stderr
C18_LogsDistinct ==
    Emitted =>
        LET jobList == descriptor.jobList
        IN  /\ \A i \in 1..Len(jobList) :
                  IF jobList[i].name = <<"env">>
                  THEN /\ jobList[i].stdout = NoText
                       /\ jobList[i].stderr = <<MsgOfInvocation(i), ".err">> \o Ordinal(i)
                  ELSE /\ jobList[i].stdout = <<"job.stdout">> \o Ordinal(i)
                       /\ jobList[i].stderr = NoText
            /\ \A i, j \in 1..Len(jobList) :
                  i # j =>
                      /\ jobList[i].stdout # NoText => jobList[i].stdout # jobList[j].stdout
                      /\ jobList[i].stderr # NoText => jobList[i].stderr # jobList[j].stderr

C18_Witness ==
    /\ Emitted
    /\ Len(descriptor.jobList) = 2
    /\ Len(decls) = 2
    /\ \A i \in 1..2 : Len(decls[i].entry) = 1 /\ decls[i].entry[1] = <<"env">>
    /\ descriptor.jobList[1].name = <<"env">>
    /\ descriptor.jobList[1].stderr = <<"global", ".err", ".", "0">>
    /\ descriptor.jobList[2].stderr = <<"global", ".err", ".", "1">>
    /\ descriptor.jobList[1].stdout = NoText

IsAbsent(env) == DOMAIN env = {"none"}

\* the environment entries the job of entry i declares, by the name of the
\* job: echo declares LANG with the value <LANG>, which nothing defines; env
\* declares KEEP with a plain value in environment and HEAD in exec_env;
\* copy declares nothing
C19_Expected(i, field) ==
    LET name == descriptor.jobList[i].name
    IN  IF name = <<"env">> THEN "kept"
        ELSE IF name = <<"echo">> /\ field = "environment" THEN "all dropped"
        ELSE "none declared"

\* C19: in an emitted job list, environment and exec_env are never a
\* mapping without entries; they are the absent marker for a job that
\* declares no entry and for a job whose every entry was dropped, and a
\* mapping that holds the kept entries otherwise
C19_EmptyIsAbsent ==
    Emitted =>
        \A i \in 1..Len(descriptor.jobList) :
            LET e == descriptor.jobList[i]
            IN  /\ DOMAIN e.environment # {}
                /\ DOMAIN e.exec_env # {}
                /\ C19_Expected(i, "environment") # "kept" => IsAbsent(e.environment)
                /\ C19_Expected(i, "exec_env") # "kept" => IsAbsent(e.exec_env)
                /\ C19_Expected(i, "environment") = "kept" =>
                       /\ <<"KEEP">> \in DOMAIN e.environment
                       /\ e.environment[<<"KEEP">>] = <<"plain">>
                /\ C19_Expected(i, "exec_env") = "kept" =>
                       <<"HEAD">> \in DOMAIN e.exec_env

C19_Witness ==
    /\ Emitted
    /\ Len(descriptor.jobList) = 2
    /\ descriptor.jobList[1].name = <<"env">>
    /\ descriptor.jobList[2].name = <<"echo">>
    /\ DOMAIN descriptor.jobList[1].environment
           = {<<"KEEP">>, <<"MID">>, <<"KEY_", "<MSG>">>}
    /\ IsAbsent(descriptor.jobList[2].environment)
    /\ IsAbsent(descriptor.jobList[2].exec_env)

\* the names of the workflows that load: the LOAD_WORKFLOW entries whose
\* file calls registered jobs only
LoadedWorkflowNames ==
    LET work == Get(user_config, "LOAD_WORKFLOW", <<>>)
    IN  {IF Len(work[i]) = 1 THEN basename(work[i][1]) ELSE work[i][2] :
            i \in (1..Len(work)) \ WorkflowsCallingUnregistered}

\* the HOOK_WORKFLOW declarations with an unknown stage or an unknown workflow
InvalidHooks ==
    LET hooks == Get(user_config, "HOOK_WORKFLOW", <<>>)
    IN  {i \in 1..Len(hooks) :
            hooks[i][2] \notin HookRuntime \/ hooks[i][1] \notin LoadedWorkflowNames}

IsHookError(e) ==
    e.message \in {"Run mode not supported for Hook Workflow",
                   "Cannot setup hook for non-existing job name"}

HookErrors(collected) ==
    {k \in 1..Len(from_collected(collected)) : IsHookError(from_collected(collected)[k])}

\* C20: when _workflows_from_dict has ended, the errors recorded hold one
\* entry for each HOOK_WORKFLOW declaration with an unknown stage or an
\* unknown workflow, and these entries are all in one raised error
C20_HookErrorsAggregated ==
    entry = "from_dict" /\ pc \in {"jobs", "job_dirs", "check"} =>
        /\ Cardinality(HookErrors(errors)) = Cardinality(InvalidHooks)
        /\ InvalidHooks # {} =>
               \E k \in 1..Len(errors) :
                   /\ IsCVE(errors[k])
                   /\ Cardinality(HookErrors(<<errors[k]>>)) = Cardinality(InvalidHooks)

IsMaxRunningError(e) ==
    e.message \in {"QUEUE_OPTION MAX_RUNNING is not an integer",
                   "QUEUE_OPTION MAX_RUNNING is negative"}

\* the error expected for each malformed MAX_RUNNING entry of the call, in
\* the order of the entries: "-1" is negative, the others are no integers
ExpectedMaxRunningErrors ==
    LET options == Get(user_config, "QUEUE_OPTION", <<>>)
        Malformed(option) ==
            /\ option[2] = "MAX_RUNNING"
            /\ Len(option) = 3
            /\ option[3] \in {<<"-", "1">>, <<"a">>, <<"1", ".", "5">>, <<>>}
        bad == SelectSeq(options, Malformed)
    IN  [i \in 1..Len(bad) |->
            ErrorInfo(IF bad[i][3] = <<"-", "1">>
                      THEN "QUEUE_OPTION MAX_RUNNING is negative"
                      ELSE "QUEUE_OPTION MAX_RUNNING is not an integer",
                      <<bad[i][3]>>)]

\* C21: once the dictionary checks of from_dict are done, a configuration
\* with a MAX_RUNNING entry whose value is no non-negative integer has
\* raised, and what it raised holds one MAX_RUNNING error for each such
\* entry, in the order of the entries, and none for any other entry
\* (non-negative values, other option names, no value)
C21_MaxRunningErrors ==
    entry = "from_dict" /\ pc \notin {"from_file", "from_dict"} =>
        /\ ExpectedMaxRunningErrors # <<>> => pc = "raised"
        /\ pc = "raised" => SelectSeq(raised, IsMaxRunningError) = ExpectedMaxRunningErrors
        /\ pc # "raised" =>
              \A k \in 1..Len(from_collected(errors)) :
                  ~IsMaxRunningError(from_collected(errors)[k])

C21_Witness ==
    /\ pc = "raised"
    /\ Get(user_config, "QUEUE_OPTION", <<>>) = <<QueueOptions[2], QueueOptions[9]>>
    /\ Len(raised) = 1
    /\ raised[1].message = "QUEUE_OPTION MAX_RUNNING is negative"

\* the GEN_KW declarations of the call with an INIT_FILES: argument that has
\* no placeholder for the realization index
InitFilesWithoutPlaceholder ==
    LET gen_kw == Get(user_config, "GEN_KW", <<>>)
    IN  {i \in 1..Len(gen_kw) :
            \E a \in 2..Len(gen_kw[i]) :
                gen_kw[i][a] \in {<<"INIT_FILES:", "init">>, <<"init_files:", "init">>}}

IsPlaceholderError(e) ==
    e.message = "Loading GEN_KW from files requires %d in file format"

\* the errors reported so far: what was raised, or what from_dict holds
Reported == IF pc = "raised" THEN raised ELSE from_collected(errors)

\* C22: once from_dict is past the validation of the ensemble
\* configuration, what it reports holds one error for every GEN_KW
\* declaration that loads from files without a placeholder, all together
C22_InitFilesErrorsCollected ==
    entry = "from_dict" /\ pc \notin {"from_file", "from_dict", "ensemble"} =>
        Cardinality({k \in 1..Len(Reported) : IsPlaceholderError(Reported[k])})
            = Cardinality(InitFilesWithoutPlaceholder)

\* the value <MSG> has for entry i of the job list when the call DEFINEs
\* <MSG> as global: the realization number for env(<MSG>=<IENS>), whose
\* private scope defines <MSG>, and global for an invocation without it
ShadowedMsg(i) ==
    IF decls[i] = EnvironmentDeclarations[3] THEN ToString(descriptor.iens) ELSE "global"

\* C23: with <MSG> defined globally, every field of a descriptor entry of
\* the job env that the job definition writes with <MSG> (executable,
\* argument, stderr file, environment key and environment value) reads the
\* private value for an invocation whose private scope defines <MSG>, and
\* the global value for an invocation without it; so does the argument of
\* echo, invoked without private arguments
C23_PrivateShadowsGlobal ==
    /\ Emitted
    /\ Get(user_config, "INSTALL_JOB", <<>>) = ThreeJobs
    /\ "<MSG>" \in DOMAIN ert.substitution_list
    => \A i \in 1..Len(descriptor.jobList) :
           LET e == descriptor.jobList[i]
               v == ShadowedMsg(i)
           IN  IF e.name = <<"env">>
               THEN /\ e.executable = <<"/", "bin", v>>
                    /\ e.argList = <<<<v>>>>
                    /\ e.stderr = <<v, ".err">> \o Ordinal(i)
                    /\ <<"KEY_", v>> \in DOMAIN e.environment
                    /\ e.environment[<<"KEY_", v>>] = <<"value">>
                    /\ <<"MSG">> \in DOMAIN e.environment
                    /\ e.environment[<<"MSG">>] = <<v>>
               ELSE e.argList[1] = <<"global">>

C23_Witness ==
    /\ Emitted
    /\ "<MSG>" \in DOMAIN ert.substitution_list
    /\ Len(decls) = 2
    /\ decls[1] = EnvironmentDeclarations[3]
    /\ Len(decls[2].entry) = 1
    /\ decls[2].entry[1] = <<"env">>
    /\ descriptor.iens = 1
    /\ descriptor.jobList[1].executable = <<"/", "bin", "1">>
    /\ descriptor.jobList[2].executable = <<"/", "bin", "global">>

\* C24: whenever a descriptor is asked of a returned configuration,
\* forward_model_data_to_json returns one, and its job list has one entry
\* for each job of forward_model_list, in the order of that list
C24_EmissionIsTotal ==
    pc = "returned" /\ descriptor # NoObject =>
        /\ descriptor.raises = None
        /\ Len(descriptor.jobList) = Len(ert.forward_model_list)
        /\ \A i \in 1..Len(ert.forward_model_list) :
              descriptor.jobList[i].name = heap[ert.forward_model_list[i]].name

====
